---- MODULE Spec2Model ----
(***************************************************************************)
(* The Escrow application of DeSciChain (src/contracts/Escrow.py), a       *)
(* PyTeal approval program, as a state machine.  One application call is   *)
(* one atomic step: the approval program is evaluated on the application's *)
(* global state, and its effects (global writes, the inbound payment of    *)
(* the group, the inner payment it submits, its logs) are committed only   *)
(* when it approves.                                                       *)
(*                                                                         *)
(* Byte strings are sequences of byte values; a stack or store value is    *)
(* tagged as the AVM tags it: U(n) is a uint64, B(s) a byte string.        *)
(***************************************************************************)
EXTENDS Integers, Sequences, FiniteSets, TLC

(***************************************************************************)
(* Bounds of the model.                                                    *)
(***************************************************************************)
\* No create_escrow is attempted once this many escrows exist.
MaxEscrows == 2
\* The ledger clock never passes StartTime + Horizon.
Horizon == 604801
\* Global.latest_timestamp() when the application has just been created.
StartTime == 100

(***************************************************************************)
(* Program constants.                                                      *)
(***************************************************************************)
STATUS_PENDING == 0
STATUS_RELEASED == 1
STATUS_REFUNDED == 2
\* Int(1000), the flat deduction of both payouts.
ProtocolFee == 1000
\* Int(604800), seven days in seconds.
RefundTimeout == 604800
\* An account address is 32 bytes.
AddrLen == 32
\* Btoi accepts at most 8 bytes; Itob yields exactly 8.
WordLen == 8

(***************************************************************************)
(* Values and conversions.                                                 *)
(***************************************************************************)
U(n) == [t |-> "u", v |-> n]
B(s) == [t |-> "b", v |-> s]

\* Itob: uint64 -> 8 bytes, big-endian (the values of the model stay
\* below 2^32, so the four high bytes are 0).
Itob(n) == <<0, 0, 0, 0, (n \div 16777216) % 256, (n \div 65536) % 256, (n \div 256) % 256, n % 256>>

RECURSIVE BtoiUpTo(_, _)
\* The big-endian value of the first k bytes of b.
BtoiUpTo(b, k) == IF k = 0 THEN 0 ELSE BtoiUpTo(b, k - 1) * 256 + b[k]

\* Btoi: the big-endian value of a byte string (of at most 8 bytes).
Btoi(b) == BtoiUpTo(b, Len(b))

\* Btoi fails the program on an argument longer than 8 bytes.
BtoiOK(b) == Len(b) <= WordLen

\* The account whose address is 32 bytes of value n.
Addr(n) == [i \in 1..AddrLen |-> n]

(***************************************************************************)
(* Byte-string literals of the program.                                    *)
(***************************************************************************)
\* "escrow_count"
escrow_count_key == <<101,115,99,114,111,119,95,99,111,117,110,116>>
\* "model_"
K_model == <<109,111,100,101,108,95>>
\* "buyer_"
K_buyer == <<98,117,121,101,114,95>>
\* "publisher_"
K_publisher == <<112,117,98,108,105,115,104,101,114,95>>
\* "amount_"
K_amount == <<97,109,111,117,110,116,95>>
\* "status_"
K_status == <<115,116,97,116,117,115,95>>
\* "created_"
K_created == <<99,114,101,97,116,101,100,95>>
\* "released_"
K_released == <<114,101,108,101,97,115,101,100,95>>
\* "refunded_"
K_refunded == <<114,101,102,117,110,100,101,100,95>>
\* "create_escrow"
M_create_escrow == <<99,114,101,97,116,101,95,101,115,99,114,111,119>>
\* "release_payment"
M_release_payment == <<114,101,108,101,97,115,101,95,112,97,121,109,101,110,116>>
\* "refund_payment"
M_refund_payment == <<114,101,102,117,110,100,95,112,97,121,109,101,110,116>>
\* "get_escrow_status"
M_get_escrow_status == <<103,101,116,95,101,115,99,114,111,119,95,115,116,97,116,117,115>>
\* "get_escrow_count"
M_get_escrow_count == <<103,101,116,95,101,115,99,114,111,119,95,99,111,117,110,116>>
\* "ESCROW_CREATED:"
L_ESCROW_CREATED == <<69,83,67,82,79,87,95,67,82,69,65,84,69,68,58>>
\* "PAYMENT_RELEASED:"
L_PAYMENT_RELEASED == <<80,65,89,77,69,78,84,95,82,69,76,69,65,83,69,68,58>>
\* "PAYMENT_REFUNDED:"
L_PAYMENT_REFUNDED == <<80,65,89,77,69,78,84,95,82,69,70,85,78,68,69,68,58>>
\* "ESCROW_STATUS:"
L_ESCROW_STATUS == <<69,83,67,82,79,87,95,83,84,65,84,85,83,58>>
\* "MODEL_ID:"
L_MODEL_ID == <<77,79,68,69,76,95,73,68,58>>
\* "BUYER:"
L_BUYER == <<66,85,89,69,82,58>>
\* "PUBLISHER:"
L_PUBLISHER == <<80,85,66,76,73,83,72,69,82,58>>
\* "AMOUNT:"
L_AMOUNT == <<65,77,79,85,78,84,58>>
\* "STATUS:"
L_STATUS == <<83,84,65,84,85,83,58>>
\* "CREATED:"
L_CREATED == <<67,82,69,65,84,69,68,58>>
\* "ESCROW_COUNT:"
L_ESCROW_COUNT == <<69,83,67,82,79,87,95,67,79,85,78,84,58>>
\* ":"
L_COLON == <<58>>

(***************************************************************************)
(* The application's global state: a map from byte-string keys to values.  *)
(***************************************************************************)
\* Concat(Bytes(suffix), Itob(escrow_id))
escrow_key(escrow_id, suffix) == suffix \o Itob(escrow_id)

\* App.globalGet: the stored value, uint64 0 when the key is absent.
globalGet(g, k) == IF k \in DOMAIN g THEN g[k] ELSE U(0)

\* The longest key the global state takes.
MaxKeyLen == 64
\* The most bytes that a key and its byte-string value may have together.
MaxKeyValueLen == 128

\* What App.globalPut takes: a key of at most 64 bytes and, with a
\* byte-string value, at most 128 bytes of key and value together; any
\* other put fails the program.
PutOK(k, val) ==
    /\ Len(k) <= MaxKeyLen
    /\ val.t = "b" => Len(k) + Len(val.v) <= MaxKeyValueLen

\* App.globalPut: (over)writes one key.
globalPut(g, k, val) == [x \in (DOMAIN g) \cup {k} |-> IF x = k THEN val ELSE g[x]]

\* The AVM's ==: equal type and equal value.
TealEq(a, b) == a.t = b.t /\ a.v = b.v

\* The field `suffix` of escrow `id`, as stored.
Field(g, id, suffix) == globalGet(g, escrow_key(id, suffix))

\* The stored escrow counter.
Count(g) == globalGet(g, escrow_count_key).v

(***************************************************************************)
(* Transactions.  An application call carries its sender, its              *)
(* on-completion kind, its arguments (byte strings; args[1] is             *)
(* Txn.application_args[0]) and the group it is part of, a sequence of     *)
(* [type, sender, receiver, amount].                                       *)
(***************************************************************************)
\* Global.current_application_address(): the custodial account.
AppAddr == Addr(9)

\* Txn.application_args[i], with the program's zero-based index.
Arg(txn, i) == txn.args[i + 1]

PayTxn(from, to, amt) == [type |-> "pay", sender |-> from, receiver |-> to, amount |-> amt]
ApplTxn(from) == [type |-> "appl", sender |-> from, receiver |-> << >>, amount |-> 0]

\* What evaluating the approval program yields: approval or the kind of
\* the first failed check, and, on approval, its effects.  `submit` is the
\* global state as it stood when InnerTxnBuilder.Submit() ran.
Approve(g, itxns, logs, submit) ==
    [ok |-> TRUE, err |-> "none", global |-> g, itxns |-> itxns, logs |-> logs, submit |-> submit]
Reject(kind) ==
    [ok |-> FALSE, err |-> kind, global |-> << >>, itxns |-> << >>, logs |-> << >>, submit |-> << >>]

(***************************************************************************)
(* create_escrow                                                           *)
(***************************************************************************)
\* Mutant: the buyer stored is the sender of the application call.
CreateWrites_BuyerIsCaller(g, txn, now) ==
    LET g1 == globalPut(g, escrow_count_key, U(Count(g) + 1))
        id == Count(g1)
        g2 == globalPut(g1, escrow_key(id, K_model), U(Btoi(Arg(txn, 1))))
        g3 == globalPut(g2, escrow_key(id, K_buyer), B(txn.sender))
        g4 == globalPut(g3, escrow_key(id, K_publisher), B(Arg(txn, 2)))
        g5 == globalPut(g4, escrow_key(id, K_amount), U(txn.group[1].amount))
        g6 == globalPut(g5, escrow_key(id, K_status), U(STATUS_PENDING))
    IN  globalPut(g6, escrow_key(id, K_created), B(Itob(now)))

\* Mutant: the record is keyed by the count as it was before the increment.
CreateWrites_StaleId(g, txn, now) ==
    LET g1 == globalPut(g, escrow_count_key, U(Count(g) + 1))
        id == Count(g)
        g2 == globalPut(g1, escrow_key(id, K_model), U(Btoi(Arg(txn, 1))))
        g3 == globalPut(g2, escrow_key(id, K_buyer), B(txn.group[1].sender))
        g4 == globalPut(g3, escrow_key(id, K_publisher), B(Arg(txn, 2)))
        g5 == globalPut(g4, escrow_key(id, K_amount), U(txn.group[1].amount))
        g6 == globalPut(g5, escrow_key(id, K_status), U(STATUS_PENDING))
    IN  globalPut(g6, escrow_key(id, K_created), B(Itob(now)))

\* The six field writes and the counter increment of create_escrow.
CreateWrites(g, txn, now) ==
    LET g1 == globalPut(g, escrow_count_key, U(Count(g) + 1))
        id == Count(g1)
        g2 == globalPut(g1, escrow_key(id, K_model), U(Btoi(Arg(txn, 1))))
        g3 == globalPut(g2, escrow_key(id, K_buyer), B(txn.group[1].sender))
        g4 == globalPut(g3, escrow_key(id, K_publisher), B(Arg(txn, 2)))
        g5 == globalPut(g4, escrow_key(id, K_amount), U(txn.group[1].amount))
        g6 == globalPut(g5, escrow_key(id, K_status), U(STATUS_PENDING))
    IN  globalPut(g6, escrow_key(id, K_created), B(Itob(now)))

\* Mutant: the event carries the count as it was before the increment.
CreateLog_StaleId(g, txn) ==
    L_ESCROW_CREATED \o Itob(Count(g) - 1) \o L_COLON \o Arg(txn, 1) \o L_COLON
        \o txn.group[1].sender \o L_COLON \o Itob(txn.group[1].amount)

\* Log(Concat("ESCROW_CREATED:", Itob(count), ":", args[1], ":", payer, ":", Itob(amount)))
CreateLog(g, txn) ==
    L_ESCROW_CREATED \o Itob(Count(g)) \o L_COLON \o Arg(txn, 1) \o L_COLON
        \o txn.group[1].sender \o L_COLON \o Itob(txn.group[1].amount)

\* Mutant: the check of line 39 (payment amount > 0) is missing.
create_escrow_NoPositiveCheck(g, txn, now) ==
    IF Len(txn.args) # 4 THEN Reject("InvalidArgument")
    ELSE IF Len(txn.group) # 2 THEN Reject("PaymentMismatch")
    ELSE IF txn.group[1].type # "pay" THEN Reject("PaymentMismatch")
    ELSE IF txn.group[2].type # "appl" THEN Reject("PaymentMismatch")
    ELSE IF txn.group[1].receiver # AppAddr THEN Reject("PaymentMismatch")
    ELSE IF ~BtoiOK(Arg(txn, 3)) THEN Reject("InvalidArgument")
    ELSE IF txn.group[1].amount # Btoi(Arg(txn, 3)) THEN Reject("PaymentMismatch")
    ELSE IF ~BtoiOK(Arg(txn, 1)) THEN Reject("InvalidArgument")
    ELSE IF ~PutOK(escrow_key(Count(g) + 1, K_publisher), B(Arg(txn, 2))) THEN Reject("ValueTooLong")
    ELSE LET g1 == CreateWrites(g, txn, now)
         IN  Approve(g1, << >>, << CreateLog(g1, txn) >>, << >>)

\* Mutant: the check of line 42 (payment amount == price argument) is missing.
create_escrow_NoPriceCheck(g, txn, now) ==
    IF Len(txn.args) # 4 THEN Reject("InvalidArgument")
    ELSE IF Len(txn.group) # 2 THEN Reject("PaymentMismatch")
    ELSE IF txn.group[1].type # "pay" THEN Reject("PaymentMismatch")
    ELSE IF txn.group[2].type # "appl" THEN Reject("PaymentMismatch")
    ELSE IF txn.group[1].receiver # AppAddr THEN Reject("PaymentMismatch")
    ELSE IF ~(txn.group[1].amount > 0) THEN Reject("InvalidArgument")
    ELSE IF ~BtoiOK(Arg(txn, 1)) THEN Reject("InvalidArgument")
    ELSE IF ~PutOK(escrow_key(Count(g) + 1, K_publisher), B(Arg(txn, 2))) THEN Reject("ValueTooLong")
    ELSE LET g1 == CreateWrites(g, txn, now)
         IN  Approve(g1, << >>, << CreateLog(g1, txn) >>, << >>)

\* Mutant: the receiver of the grouped payment (line 36) is not checked.
create_escrow_NoReceiverCheck(g, txn, now) ==
    IF Len(txn.args) # 4 THEN Reject("InvalidArgument")
    ELSE IF Len(txn.group) # 2 THEN Reject("PaymentMismatch")
    ELSE IF txn.group[1].type # "pay" THEN Reject("PaymentMismatch")
    ELSE IF txn.group[2].type # "appl" THEN Reject("PaymentMismatch")
    ELSE IF ~(txn.group[1].amount > 0) THEN Reject("InvalidArgument")
    ELSE IF ~BtoiOK(Arg(txn, 3)) THEN Reject("InvalidArgument")
    ELSE IF txn.group[1].amount # Btoi(Arg(txn, 3)) THEN Reject("PaymentMismatch")
    ELSE IF ~BtoiOK(Arg(txn, 1)) THEN Reject("InvalidArgument")
    ELSE IF ~PutOK(escrow_key(Count(g) + 1, K_publisher), B(Arg(txn, 2))) THEN Reject("ValueTooLong")
    ELSE LET g1 == CreateWrites(g, txn, now)
         IN  Approve(g1, << >>, << CreateLog(g1, txn) >>, << >>)

create_escrow(g, txn, now) ==
    IF Len(txn.args) # 4 THEN Reject("InvalidArgument")
    ELSE IF Len(txn.group) # 2 THEN Reject("PaymentMismatch")
    ELSE IF txn.group[1].type # "pay" THEN Reject("PaymentMismatch")
    ELSE IF txn.group[2].type # "appl" THEN Reject("PaymentMismatch")
    ELSE IF txn.group[1].receiver # AppAddr THEN Reject("PaymentMismatch")
    ELSE IF ~(txn.group[1].amount > 0) THEN Reject("InvalidArgument")
    ELSE IF ~BtoiOK(Arg(txn, 3)) THEN Reject("InvalidArgument")
    ELSE IF txn.group[1].amount # Btoi(Arg(txn, 3)) THEN Reject("PaymentMismatch")
    ELSE IF ~BtoiOK(Arg(txn, 1)) THEN Reject("InvalidArgument")
    ELSE IF ~PutOK(escrow_key(Count(g) + 1, K_publisher), B(Arg(txn, 2))) THEN Reject("ValueTooLong")
    ELSE LET g1 == CreateWrites(g, txn, now)
         IN  Approve(g1, << >>, << CreateLog(g1, txn) >>, << >>)

(***************************************************************************)
(* The inner payment of release_payment and refund_payment.                *)
(***************************************************************************)
\* TxnField.amount: stored amount - Int(1000).  The AVM's `-` fails the
\* program when the result would be negative.
PayoutOK(g, id) == Field(g, id, K_amount).v >= ProtocolFee

\* Mutant: the whole amount is paid out, the fee included.
PayoutAmount_NoFee(g, id) == Field(g, id, K_amount).v

PayoutAmount(g, id) == Field(g, id, K_amount).v - ProtocolFee

\* TxnField.receiver must be a 32-byte address.
ReceiverOK(val) == val.t = "b" /\ Len(val.v) = AddrLen

\* The settlement authority commits a payment the custodial balance covers.
SubmitOK(bal, amt) == amt <= bal

InnerPay(to, amt) == [receiver |-> to, amount |-> amt]

(***************************************************************************)
(* release_payment                                                         *)
(***************************************************************************)
\* Mutant: the release stamps created_ as well.
ReleaseWrites_RewritesCreated(g, id, now) ==
    LET g1 == globalPut(g, escrow_key(id, K_status), U(STATUS_RELEASED))
        g2 == globalPut(g1, escrow_key(id, K_created), B(Itob(now)))
    IN  globalPut(g2, escrow_key(id, K_released), B(Itob(now)))

\* Lines 100-108: status := Released, released_at := now.
ReleaseWrites(g, id, now) ==
    LET g1 == globalPut(g, escrow_key(id, K_status), U(STATUS_RELEASED))
    IN  globalPut(g1, escrow_key(id, K_released), B(Itob(now)))

\* Log(Concat("PAYMENT_RELEASED:", args[1], ":", publisher, ":", Itob(amount)))
ReleaseLog(g, txn, id) ==
    L_PAYMENT_RELEASED \o Arg(txn, 1) \o L_COLON \o Field(g, id, K_publisher).v
        \o L_COLON \o Itob(Field(g, id, K_amount).v)

\* Mutant: the inner payment is submitted first, the status and the
\* timestamp are written after it.
ReleaseEffects_TransferFirst(g, bal, txn, id, now) ==
    LET g1 == ReleaseWrites(g, id, now)
    IN  IF ~ReceiverOK(Field(g, id, K_publisher)) THEN Reject("InvalidArgument")
        ELSE IF ~PayoutOK(g, id) THEN Reject("ArithmeticError")
        ELSE IF ~SubmitOK(bal, PayoutAmount(g, id)) THEN Reject("TransferRejected")
        ELSE Approve(g1,
                     << InnerPay(Field(g, id, K_publisher).v, PayoutAmount(g, id)) >>,
                     << ReleaseLog(g1, txn, id) >>,
                     g)

\* Lines 100-130, once every Assert has passed: the writes, then the
\* inner payment built from the state after the writes, then the log.
ReleaseEffects(g, bal, txn, id, now) ==
    LET g1 == ReleaseWrites(g, id, now)
    IN  IF ~ReceiverOK(Field(g1, id, K_publisher)) THEN Reject("InvalidArgument")
        ELSE IF ~PayoutOK(g1, id) THEN Reject("ArithmeticError")
        ELSE IF ~SubmitOK(bal, PayoutAmount(g1, id)) THEN Reject("TransferRejected")
        ELSE Approve(g1,
                     << InnerPay(Field(g1, id, K_publisher).v, PayoutAmount(g1, id)) >>,
                     << ReleaseLog(g1, txn, id) >>,
                     g1)

\* Mutant: the buyer of the escrow may release it too.
ReleaseAuthorized_OrBuyer(g, txn, id) ==
    \/ TealEq(B(txn.sender), Field(g, id, K_publisher))
    \/ TealEq(B(txn.sender), Field(g, id, K_buyer))

\* Line 97: Txn.sender() == stored publisher.
ReleaseAuthorized(g, txn, id) == TealEq(B(txn.sender), Field(g, id, K_publisher))

\* Mutant: the upper range check of line 93 is missing.
release_payment_NoUpperBound(g, bal, txn, now) ==
    IF Len(txn.args) # 2 THEN Reject("InvalidArgument")
    ELSE IF ~BtoiOK(Arg(txn, 1)) THEN Reject("InvalidArgument")
    ELSE LET id == Btoi(Arg(txn, 1))
         IN  IF ~(id > 0) THEN Reject("InvalidArgument")
             ELSE IF ~TealEq(Field(g, id, K_status), U(STATUS_PENDING)) THEN Reject("InvalidState")
             ELSE IF ~ReleaseAuthorized(g, txn, id) THEN Reject("Unauthorized")
             ELSE IF ~(Field(g, id, K_amount).v > 0) THEN Reject("InvalidState")
             ELSE ReleaseEffects(g, bal, txn, id, now)

\* Mutant: the status check of line 96 is missing.
release_payment_NoStatusCheck(g, bal, txn, now) ==
    IF Len(txn.args) # 2 THEN Reject("InvalidArgument")
    ELSE IF ~BtoiOK(Arg(txn, 1)) THEN Reject("InvalidArgument")
    ELSE LET id == Btoi(Arg(txn, 1))
         IN  IF ~(id > 0) THEN Reject("InvalidArgument")
             ELSE IF ~(id <= Count(g)) THEN Reject("InvalidArgument")
             ELSE IF ~ReleaseAuthorized(g, txn, id) THEN Reject("Unauthorized")
             ELSE IF ~(Field(g, id, K_amount).v > 0) THEN Reject("InvalidState")
             ELSE ReleaseEffects(g, bal, txn, id, now)

\* Mutant: the caller is checked (line 97) before the status (line 96).
release_payment_AuthFirst(g, bal, txn, now) ==
    IF Len(txn.args) # 2 THEN Reject("InvalidArgument")
    ELSE IF ~BtoiOK(Arg(txn, 1)) THEN Reject("InvalidArgument")
    ELSE LET id == Btoi(Arg(txn, 1))
         IN  IF ~(id > 0) THEN Reject("InvalidArgument")
             ELSE IF ~(id <= Count(g)) THEN Reject("InvalidArgument")
             ELSE IF ~ReleaseAuthorized(g, txn, id) THEN Reject("Unauthorized")
             ELSE IF ~TealEq(Field(g, id, K_status), U(STATUS_PENDING)) THEN Reject("InvalidState")
             ELSE IF ~(Field(g, id, K_amount).v > 0) THEN Reject("InvalidState")
             ELSE ReleaseEffects(g, bal, txn, id, now)

release_payment(g, bal, txn, now) ==
    IF Len(txn.args) # 2 THEN Reject("InvalidArgument")
    ELSE IF ~BtoiOK(Arg(txn, 1)) THEN Reject("InvalidArgument")
    ELSE LET id == Btoi(Arg(txn, 1))
         IN  IF ~(id > 0) THEN Reject("InvalidArgument")
             ELSE IF ~(id <= Count(g)) THEN Reject("InvalidArgument")
             ELSE IF ~TealEq(Field(g, id, K_status), U(STATUS_PENDING)) THEN Reject("InvalidState")
             ELSE IF ~ReleaseAuthorized(g, txn, id) THEN Reject("Unauthorized")
             ELSE IF ~(Field(g, id, K_amount).v > 0) THEN Reject("InvalidState")
             ELSE ReleaseEffects(g, bal, txn, id, now)

(***************************************************************************)
(* refund_payment                                                          *)
(***************************************************************************)
\* Mutant: the refund stamps released_ where it should stamp refunded_.
RefundWrites_WrongStamp(g, id, now) ==
    LET g1 == globalPut(g, escrow_key(id, K_status), U(STATUS_REFUNDED))
    IN  globalPut(g1, escrow_key(id, K_released), B(Itob(now)))

\* Lines 152-160: status := Refunded, refunded_at := now.
RefundWrites(g, id, now) ==
    LET g1 == globalPut(g, escrow_key(id, K_status), U(STATUS_REFUNDED))
    IN  globalPut(g1, escrow_key(id, K_refunded), B(Itob(now)))

\* Log(Concat("PAYMENT_REFUNDED:", args[1], ":", buyer, ":", Itob(amount)))
RefundLog(g, txn, id) ==
    L_PAYMENT_REFUNDED \o Arg(txn, 1) \o L_COLON \o Field(g, id, K_buyer).v
        \o L_COLON \o Itob(Field(g, id, K_amount).v)

\* Mutant: the inner payment is submitted first, the status and the
\* timestamp are written after it.
RefundEffects_TransferFirst(g, bal, txn, id, now) ==
    LET g1 == RefundWrites(g, id, now)
    IN  IF ~ReceiverOK(Field(g, id, K_buyer)) THEN Reject("InvalidArgument")
        ELSE IF ~PayoutOK(g, id) THEN Reject("ArithmeticError")
        ELSE IF ~SubmitOK(bal, PayoutAmount(g, id)) THEN Reject("TransferRejected")
        ELSE Approve(g1,
                     << InnerPay(Field(g, id, K_buyer).v, PayoutAmount(g, id)) >>,
                     << RefundLog(g1, txn, id) >>,
                     g)

\* Mutant: the refund is sent to the publisher, as the release is.
RefundEffects_ToPublisher(g, bal, txn, id, now) ==
    LET g1 == RefundWrites(g, id, now)
    IN  IF ~ReceiverOK(Field(g1, id, K_publisher)) THEN Reject("InvalidArgument")
        ELSE IF ~PayoutOK(g1, id) THEN Reject("ArithmeticError")
        ELSE IF ~SubmitOK(bal, PayoutAmount(g1, id)) THEN Reject("TransferRejected")
        ELSE Approve(g1,
                     << InnerPay(Field(g1, id, K_publisher).v, PayoutAmount(g1, id)) >>,
                     << RefundLog(g1, txn, id) >>,
                     g1)

\* Lines 152-182, once every Assert has passed.
RefundEffects(g, bal, txn, id, now) ==
    LET g1 == RefundWrites(g, id, now)
    IN  IF ~ReceiverOK(Field(g1, id, K_buyer)) THEN Reject("InvalidArgument")
        ELSE IF ~PayoutOK(g1, id) THEN Reject("ArithmeticError")
        ELSE IF ~SubmitOK(bal, PayoutAmount(g1, id)) THEN Reject("TransferRejected")
        ELSE Approve(g1,
                     << InnerPay(Field(g1, id, K_buyer).v, PayoutAmount(g1, id)) >>,
                     << RefundLog(g1, txn, id) >>,
                     g1)

\* Line 148: Global.latest_timestamp() > Btoi(created_at) + Int(604800).
TimedOut(g, id, now) == now > Btoi(Field(g, id, K_created).v) + RefundTimeout

\* Lines 145-150: the caller is the stored buyer, or the timeout has passed.
RefundAuthorized(g, txn, id, now) ==
    \/ TealEq(B(txn.sender), Field(g, id, K_buyer))
    \/ TimedOut(g, id, now)

refund_payment(g, bal, txn, now) ==
    IF Len(txn.args) # 2 THEN Reject("InvalidArgument")
    ELSE IF ~BtoiOK(Arg(txn, 1)) THEN Reject("InvalidArgument")
    ELSE LET id == Btoi(Arg(txn, 1))
         IN  IF ~(id > 0) THEN Reject("InvalidArgument")
             ELSE IF ~(id <= Count(g)) THEN Reject("InvalidArgument")
             ELSE IF ~TealEq(Field(g, id, K_status), U(STATUS_PENDING)) THEN Reject("InvalidState")
             ELSE IF ~(Field(g, id, K_amount).v > 0) THEN Reject("InvalidState")
             ELSE IF ~RefundAuthorized(g, txn, id, now) THEN Reject("Unauthorized")
             ELSE RefundEffects(g, bal, txn, id, now)

(***************************************************************************)
(* get_escrow_status, get_escrow_count                                     *)
(***************************************************************************)
\* Mutant: the BUYER: line reports the publisher and the PUBLISHER: line
\* the buyer.
StatusLogs_SwappedParties(g, txn, id) ==
    << L_ESCROW_STATUS \o Arg(txn, 1),
       L_MODEL_ID \o Itob(Field(g, id, K_model).v),
       L_BUYER \o Field(g, id, K_publisher).v,
       L_PUBLISHER \o Field(g, id, K_buyer).v,
       L_AMOUNT \o Itob(Field(g, id, K_amount).v),
       L_STATUS \o Itob(Field(g, id, K_status).v),
       L_CREATED \o Field(g, id, K_created).v >>

\* The seven log lines of get_escrow_status.
StatusLogs(g, txn, id) ==
    << L_ESCROW_STATUS \o Arg(txn, 1),
       L_MODEL_ID \o Itob(Field(g, id, K_model).v),
       L_BUYER \o Field(g, id, K_buyer).v,
       L_PUBLISHER \o Field(g, id, K_publisher).v,
       L_AMOUNT \o Itob(Field(g, id, K_amount).v),
       L_STATUS \o Itob(Field(g, id, K_status).v),
       L_CREATED \o Field(g, id, K_created).v >>

get_escrow_status(g, txn) ==
    IF Len(txn.args) # 2 THEN Reject("InvalidArgument")
    ELSE IF ~BtoiOK(Arg(txn, 1)) THEN Reject("InvalidArgument")
    ELSE LET id == Btoi(Arg(txn, 1))
         IN  IF ~(id > 0) THEN Reject("InvalidArgument")
             ELSE IF ~(id <= Count(g)) THEN Reject("InvalidArgument")
             ELSE Approve(g, << >>, StatusLogs(g, txn, id), << >>)

get_escrow_count(g, txn) ==
    Approve(g, << >>, << L_ESCROW_COUNT \o Itob(Count(g)) >>, << >>)

(***************************************************************************)
(* The approval program's dispatch (a call to the created application).    *)
(* Every method condition reads Txn.application_args[0], And() evaluating  *)
(* all of its arguments, so a call without arguments fails before any      *)
(* branch is taken.                                                        *)
(***************************************************************************)
IsMethod(txn, name) == txn.oc = "NoOp" /\ Len(txn.args) >= 1 /\ Arg(txn, 0) = name

program(g, bal, txn, now) ==
    IF Len(txn.args) = 0 THEN Reject("InvalidArgument")
    ELSE IF IsMethod(txn, M_create_escrow) THEN create_escrow(g, txn, now)
    ELSE IF IsMethod(txn, M_release_payment) THEN release_payment(g, bal, txn, now)
    ELSE IF IsMethod(txn, M_refund_payment) THEN refund_payment(g, bal, txn, now)
    ELSE IF IsMethod(txn, M_get_escrow_status) THEN get_escrow_status(g, txn)
    ELSE IF IsMethod(txn, M_get_escrow_count) THEN get_escrow_count(g, txn)
    ELSE IF txn.oc = "OptIn" THEN Approve(g, << >>, << >>, << >>)
    ELSE IF txn.oc = "CloseOut" THEN Approve(g, << >>, << >>, << >>)
    ELSE IF txn.oc = "UpdateApplication" THEN Reject("Rejected")
    ELSE IF txn.oc = "DeleteApplication" THEN Reject("Rejected")
    ELSE Reject("Rejected")

\* on_creation: the global state of the freshly created application.
on_creation == globalPut(<< >>, escrow_count_key, U(0))

(***************************************************************************)
(* NameRegistry (global-state variant).  The record of a name is four      *)
(* entries of the global state, keyed by a prefix followed by the name.    *)
(***************************************************************************)
\* Len(name_arg) <= Int(64).
MaxNameLen == 64

\* "owner_"
P_owner == <<111,119,110,101,114,95>>
\* "cid_"
P_cid == <<99,105,100,95>>
\* "price_"
P_price == <<112,114,105,99,101,95>>
\* "ts_"
P_ts == <<116,115,95>>
\* "register"
M_register == <<114,101,103,105,115,116,101,114>>
\* "resolve"
M_resolve == <<114,101,115,111,108,118,101>>
\* "update"
M_update == <<117,112,100,97,116,101>>
\* "transfer"
M_transfer == <<116,114,97,110,115,102,101,114>>
\* "delete"
M_delete == <<100,101,108,101,116,101>>
\* "exists"
M_exists == <<101,120,105,115,116,115>>
\* "REGISTERED:"
L_REGISTERED == <<82,69,71,73,83,84,69,82,69,68,58>>
\* "OWNER:"
L_OWNER == <<79,87,78,69,82,58>>
\* "CID:"
L_CID == <<67,73,68,58>>
\* "PRICE:"
L_PRICE == <<80,82,73,67,69,58>>
\* "TIMESTAMP:"
L_TIMESTAMP == <<84,73,77,69,83,84,65,77,80,58>>
\* "UPDATED:"
L_UPDATED == <<85,80,68,65,84,69,68,58>>
\* "TRANSFERRED:"
L_TRANSFERRED == <<84,82,65,78,83,70,69,82,82,69,68,58>>
\* "DELETED:"
L_DELETED == <<68,69,76,69,84,69,68,58>>
\* "EXISTS:"
L_EXISTS == <<69,88,73,83,84,83,58>>
\* "1"
L_ONE == <<49>>
\* "0"
L_ZERO == <<48>>

\* Global.creator_address(): the account that created the registries.
Creator == Addr(4)

\* Mutant: the key is the name alone, whatever the field.
name_key_NoPrefix(name, suffix) == name

name_key(name, suffix) == suffix \o name

\* App.globalDel
globalDel(g, k) == [x \in (DOMAIN g) \ {k} |-> g[x]]

\* The AVM compares two values of one type only: == and != between a byte
\* string and an integer fail the program.
CompareOK(a, b) == a.t = b.t

\* And(Len(name_arg) > Int(0), Len(name_arg) <= Int(64))
NameLenOK(name) == Len(name) > 0 /\ Len(name) <= MaxNameLen

\* The four keys of a name fit the global state.
KeysOK(name) == \A suffix \in {P_owner, P_cid, P_price, P_ts} : Len(name_key(name, suffix)) <= MaxKeyLen

\* App.globalGet(name_key(name_arg, "owner_"))
OwnerEntry(g, name) == globalGet(g, name_key(name, P_owner))

\* Lines 29-32: owner := sender, cid, price, ts := now.
RegisterWrites(g, txn, now) ==
    LET name == Arg(txn, 1)
        g1 == globalPut(g, name_key(name, P_owner), B(txn.sender))
        g2 == globalPut(g1, name_key(name, P_cid), B(Arg(txn, 2)))
        g3 == globalPut(g2, name_key(name, P_price), U(Btoi(Arg(txn, 3))))
    IN  globalPut(g3, name_key(name, P_ts), U(now))

\* Mutant: the check of line 26 (the name has no owner yet) is missing.
register_name_NoExistenceCheck(g, txn, now) ==
    IF Len(txn.args) # 4 THEN Reject("InvalidArgument")
    ELSE IF ~NameLenOK(Arg(txn, 1)) THEN Reject("InvalidArgument")
    ELSE IF ~(Len(Arg(txn, 2)) > 0) THEN Reject("InvalidArgument")
    ELSE IF ~KeysOK(Arg(txn, 1)) THEN Reject("KeyTooLong")
    ELSE IF ~PutOK(name_key(Arg(txn, 1), P_cid), B(Arg(txn, 2))) THEN Reject("ValueTooLong")
    ELSE IF ~BtoiOK(Arg(txn, 3)) THEN Reject("InvalidArgument")
    ELSE Approve(RegisterWrites(g, txn, now), << >>,
                 << L_REGISTERED \o Arg(txn, 1) \o L_COLON \o txn.sender >>, << >>)

register_name(g, txn, now) ==
    IF Len(txn.args) # 4 THEN Reject("InvalidArgument")
    ELSE IF ~NameLenOK(Arg(txn, 1)) THEN Reject("InvalidArgument")
    ELSE IF ~(Len(Arg(txn, 2)) > 0) THEN Reject("InvalidArgument")
    ELSE IF ~CompareOK(OwnerEntry(g, Arg(txn, 1)), U(0)) THEN Reject("TypeError")
    ELSE IF ~TealEq(OwnerEntry(g, Arg(txn, 1)), U(0)) THEN Reject("InvalidState")
    ELSE IF ~KeysOK(Arg(txn, 1)) THEN Reject("KeyTooLong")
    ELSE IF ~PutOK(name_key(Arg(txn, 1), P_cid), B(Arg(txn, 2))) THEN Reject("ValueTooLong")
    ELSE IF ~BtoiOK(Arg(txn, 3)) THEN Reject("InvalidArgument")
    ELSE Approve(RegisterWrites(g, txn, now), << >>,
                 << L_REGISTERED \o Arg(txn, 1) \o L_COLON \o txn.sender >>, << >>)

\* The existence and ownership checks shared by update, transfer and
\* delete: "none" when both pass, else the kind of the failure.
\* Assert(owner != Int(0)) then Assert(owner == Txn.sender()).
OwnerCheck(g, txn) ==
    LET owner == OwnerEntry(g, Arg(txn, 1))
    IN  IF ~CompareOK(owner, U(0)) THEN "TypeError"
        ELSE IF TealEq(owner, U(0)) THEN "NotFound"
        ELSE IF ~CompareOK(owner, B(txn.sender)) THEN "TypeError"
        ELSE IF ~TealEq(owner, B(txn.sender)) THEN "Unauthorized"
        ELSE "none"

resolve_name(g, txn) ==
    IF Len(txn.args) # 2 THEN Reject("InvalidArgument")
    ELSE IF ~NameLenOK(Arg(txn, 1)) THEN Reject("InvalidArgument")
    ELSE LET name == Arg(txn, 1)
             owner == OwnerEntry(g, name)
         IN  IF ~CompareOK(owner, U(0)) THEN Reject("TypeError")
             ELSE IF TealEq(owner, U(0)) THEN Reject("NotFound")
             ELSE IF owner.t # "b" THEN Reject("TypeError")
             ELSE Approve(g, << >>,
                          << L_OWNER \o owner.v,
                             L_CID \o globalGet(g, name_key(name, P_cid)).v,
                             L_PRICE \o Itob(globalGet(g, name_key(name, P_price)).v),
                             L_TIMESTAMP \o Itob(globalGet(g, name_key(name, P_ts)).v) >>,
                          << >>)

\* Lines 65-67: cid, price, ts := now.
UpdateWrites(g, txn, now) ==
    LET name == Arg(txn, 1)
        g1 == globalPut(g, name_key(name, P_cid), B(Arg(txn, 2)))
        g2 == globalPut(g1, name_key(name, P_price), U(Btoi(Arg(txn, 3))))
    IN  globalPut(g2, name_key(name, P_ts), U(now))

update_name(g, txn, now) ==
    IF Len(txn.args) # 4 THEN Reject("InvalidArgument")
    ELSE IF ~NameLenOK(Arg(txn, 1)) THEN Reject("InvalidArgument")
    ELSE IF OwnerCheck(g, txn) # "none" THEN Reject(OwnerCheck(g, txn))
    ELSE IF ~PutOK(name_key(Arg(txn, 1), P_cid), B(Arg(txn, 2))) THEN Reject("ValueTooLong")
    ELSE IF ~BtoiOK(Arg(txn, 3)) THEN Reject("InvalidArgument")
    ELSE Approve(UpdateWrites(g, txn, now), << >>, << L_UPDATED \o Arg(txn, 1) >>, << >>)

\* Lines 84-85: owner := new owner, ts := now.
TransferWrites(g, txn, now) ==
    LET g1 == globalPut(g, name_key(Arg(txn, 1), P_owner), B(Arg(txn, 2)))
    IN  globalPut(g1, name_key(Arg(txn, 1), P_ts), U(now))

transfer_name(g, txn, now) ==
    IF Len(txn.args) # 3 THEN Reject("InvalidArgument")
    ELSE IF ~NameLenOK(Arg(txn, 1)) THEN Reject("InvalidArgument")
    ELSE IF Len(Arg(txn, 2)) # AddrLen THEN Reject("InvalidArgument")
    ELSE IF OwnerCheck(g, txn) # "none" THEN Reject(OwnerCheck(g, txn))
    ELSE Approve(TransferWrites(g, txn, now), << >>,
                 << L_TRANSFERRED \o Arg(txn, 1) \o L_COLON \o Arg(txn, 2) >>, << >>)

\* Lines 101-104: the four entries of the name are deleted.
DeleteWrites(g, txn) ==
    LET name == Arg(txn, 1)
        g1 == globalDel(g, name_key(name, P_owner))
        g2 == globalDel(g1, name_key(name, P_cid))
        g3 == globalDel(g2, name_key(name, P_price))
    IN  globalDel(g3, name_key(name, P_ts))

delete_name(g, txn) ==
    IF Len(txn.args) # 2 THEN Reject("InvalidArgument")
    ELSE IF ~NameLenOK(Arg(txn, 1)) THEN Reject("InvalidArgument")
    ELSE IF OwnerCheck(g, txn) # "none" THEN Reject(OwnerCheck(g, txn))
    ELSE Approve(DeleteWrites(g, txn), << >>, << L_DELETED \o Arg(txn, 1) >>, << >>)

name_exists(g, txn) ==
    IF Len(txn.args) # 2 THEN Reject("InvalidArgument")
    ELSE IF ~NameLenOK(Arg(txn, 1)) THEN Reject("InvalidArgument")
    ELSE IF ~CompareOK(OwnerEntry(g, Arg(txn, 1)), U(0)) THEN Reject("TypeError")
    ELSE Approve(g, << >>,
                 << L_EXISTS \o Arg(txn, 1) \o L_COLON
                      \o (IF ~TealEq(OwnerEntry(g, Arg(txn, 1)), U(0)) THEN L_ONE ELSE L_ZERO) >>,
                 << >>)

\* The dispatch of NameRegistry for a call to the created application.
\* Every method condition reads Txn.application_args[0].
name_program(g, txn, now) ==
    IF Len(txn.args) = 0 THEN Reject("InvalidArgument")
    ELSE IF IsMethod(txn, M_register) THEN register_name(g, txn, now)
    ELSE IF IsMethod(txn, M_resolve) THEN resolve_name(g, txn)
    ELSE IF IsMethod(txn, M_update) THEN update_name(g, txn, now)
    ELSE IF IsMethod(txn, M_transfer) THEN transfer_name(g, txn, now)
    ELSE IF IsMethod(txn, M_delete) THEN delete_name(g, txn)
    ELSE IF IsMethod(txn, M_exists) THEN name_exists(g, txn)
    ELSE IF txn.oc \in {"DeleteApplication", "UpdateApplication"} THEN
            (IF txn.sender = Creator THEN Approve(g, << >>, << >>, << >>) ELSE Reject("Unauthorized"))
    ELSE IF txn.oc \in {"OptIn", "CloseOut"} THEN Approve(g, << >>, << >>, << >>)
    ELSE Reject("Rejected")

(***************************************************************************)
(* NameRegistryWorking.  approval_program() does not return a program:     *)
(* while it builds handle_register it stores App.box_length(...), an       *)
(* expression that leaves no single value, in a scratch variable (line     *)
(* 27), which PyTeal refuses with a TealTypeError; handle_resolve,         *)
(* handle_update and handle_delete repeat the expression.  The file yields *)
(* no application: nothing can be called and no box is ever written.       *)
(***************************************************************************)
\* What a call addressed to NameRegistryWorking yields: there is no
\* program that could approve it.
working_program(txn) == Reject("TealTypeError")

(***************************************************************************)
(* NameRegistrySimple (box variant with two methods).  The record of a     *)
(* name is one box named by the name: owner (32 bytes), price (8 bytes),   *)
(* cid.                                                                    *)
(***************************************************************************)
\* Concat(Txn.sender(), Itob(Btoi(price)), cid)
BoxContent(txn) == txn.sender \o Itob(Btoi(Arg(txn, 3))) \o Arg(txn, 2)

\* The first 32 bytes of the box of a name.
BoxOwner(bx, name) == SubSeq(bx[name], 1, AddrLen)

\* App.box_put: creates the box, or overwrites one of the same size.
BoxPutOK(bx, name, content) == name \in DOMAIN bx => Len(bx[name]) = Len(content)

box_put(bx, name, content) == [x \in (DOMAIN bx) \cup {name} |-> IF x = name THEN content ELSE bx[x]]

\* A box name has 1 to 64 bytes.
BoxNameOK(name) == Len(name) > 0 /\ Len(name) <= MaxKeyLen

simple_register(bx, txn) ==
    IF Len(txn.args) # 4 THEN Reject("InvalidArgument")
    ELSE IF ~BtoiOK(Arg(txn, 3)) THEN Reject("InvalidArgument")
    ELSE IF ~BoxNameOK(Arg(txn, 1)) THEN Reject("InvalidBoxName")
    ELSE IF ~BoxPutOK(bx, Arg(txn, 1), BoxContent(txn)) THEN Reject("BoxSizeMismatch")
    ELSE Approve(box_put(bx, Arg(txn, 1), BoxContent(txn)), << >>,
                 << L_REGISTERED \o Arg(txn, 1) >>, << >>)

\* Line 26 asserts App.box_length(name).hasValue(): the load of the scratch
\* slot of an expression that the program never evaluates.  Nothing stores
\* to the slot, it reads 0, and the assertion fails for every name.
simple_resolve(bx, txn) ==
    IF Len(txn.args) # 2 THEN Reject("InvalidArgument")
    ELSE Reject("NotFound")

\* The dispatch of NameRegistrySimple: it routes register and resolve;
\* DeleteApplication is the creator's; everything else is rejected.
simple_program(bx, txn) ==
    IF Len(txn.args) = 0 THEN Reject("InvalidArgument")
    ELSE IF IsMethod(txn, M_register) THEN simple_register(bx, txn)
    ELSE IF IsMethod(txn, M_resolve) THEN simple_resolve(bx, txn)
    ELSE IF txn.oc = "DeleteApplication" THEN
            (IF txn.sender = Creator THEN Approve(bx, << >>, << >>, << >>) ELSE Reject("Unauthorized"))
    ELSE Reject("Rejected")

(***************************************************************************)
(* ModelRegistry.  The record of a model is four entries of the global     *)
(* state, keyed by a prefix followed by the 8-byte model id; the ids are   *)
(* handed out by a running counter.                                        *)
(***************************************************************************)
\* "model_count"
model_count_key == <<109,111,100,101,108,95,99,111,117,110,116>>
\* "cid_"
R_cid == <<99,105,100,95>>
\* "pub_"
R_pub == <<112,117,98,95>>
\* "lic_"
R_lic == <<108,105,99,95>>
\* "ts_"
R_ts == <<116,115,95>>
\* "publish_model"
M_publish_model == <<112,117,98,108,105,115,104,95,109,111,100,101,108>>
\* "get_model"
M_get_model == <<103,101,116,95,109,111,100,101,108>>
\* "get_model_count"
M_get_model_count == <<103,101,116,95,109,111,100,101,108,95,99,111,117,110,116>>
\* "model_exists"
M_model_exists == <<109,111,100,101,108,95,101,120,105,115,116,115>>
\* "MODEL_PUBLISHED:"
L_MODEL_PUBLISHED == <<77,79,68,69,76,95,80,85,66,76,73,83,72,69,68,58>>
\* "MODEL_DATA:"
L_MODEL_DATA == <<77,79,68,69,76,95,68,65,84,65,58>>
\* "LICENSE:"
L_LICENSE == <<76,73,67,69,78,83,69,58>>
\* "MODEL_COUNT:"
L_MODEL_COUNT == <<77,79,68,69,76,95,67,79,85,78,84,58>>
\* "MODEL_EXISTS:"
L_MODEL_EXISTS == <<77,79,68,69,76,95,69,88,73,83,84,83,58>>

model_key(model_id, suffix) == suffix \o Itob(model_id)

\* App.globalGet(model_count_key)
ModelCount(g) == globalGet(g, model_count_key).v

\* App.globalGet(model_key(id, suffix))
ModelField(g, id, suffix) == globalGet(g, model_key(id, suffix))

\* Mutant: the record is written under the count read before line 32.
PublishWrites_StaleId(g, txn, now) ==
    LET id == ModelCount(g)
        g0 == globalPut(g, model_count_key, U(ModelCount(g) + 1))
        g1 == globalPut(g0, model_key(id, R_cid), B(Arg(txn, 1)))
        g2 == globalPut(g1, model_key(id, R_pub), B(Arg(txn, 2)))
        g3 == globalPut(g2, model_key(id, R_lic), B(Arg(txn, 3)))
    IN  globalPut(g3, model_key(id, R_ts), B(Itob(now)))

\* Lines 32-50: the counter is incremented, then the record is written
\* under the new count.
PublishWrites(g, txn, now) ==
    LET g0 == globalPut(g, model_count_key, U(ModelCount(g) + 1))
        id == ModelCount(g0)
        g1 == globalPut(g0, model_key(id, R_cid), B(Arg(txn, 1)))
        g2 == globalPut(g1, model_key(id, R_pub), B(Arg(txn, 2)))
        g3 == globalPut(g2, model_key(id, R_lic), B(Arg(txn, 3)))
    IN  globalPut(g3, model_key(id, R_ts), B(Itob(now)))

\* Lines 53-60, read after the writes.
PublishLog(g, txn) ==
    L_MODEL_PUBLISHED \o Itob(ModelCount(g)) \o L_COLON \o Arg(txn, 1) \o L_COLON \o Arg(txn, 2)

\* The puts of the cid, the publisher and the licence fit the global state.
PublishPutsOK(g, txn) ==
    LET id == ModelCount(g) + 1
    IN  /\ PutOK(model_key(id, R_cid), B(Arg(txn, 1)))
        /\ PutOK(model_key(id, R_pub), B(Arg(txn, 2)))
        /\ PutOK(model_key(id, R_lic), B(Arg(txn, 3)))

\* Mutant: the check of line 28 (the cid is not empty) is missing.
publish_model_NoCidCheck(g, txn, now) ==
    IF Len(txn.args) # 4 THEN Reject("InvalidArgument")
    ELSE IF ~(Len(Arg(txn, 3)) > 0) THEN Reject("InvalidArgument")
    ELSE IF ~PublishPutsOK(g, txn) THEN Reject("ValueTooLong")
    ELSE Approve(PublishWrites(g, txn, now), << >>,
                 << PublishLog(PublishWrites(g, txn, now), txn) >>, << >>)

publish_model(g, txn, now) ==
    IF Len(txn.args) # 4 THEN Reject("InvalidArgument")
    ELSE IF ~(Len(Arg(txn, 1)) > 0) THEN Reject("InvalidArgument")
    ELSE IF ~(Len(Arg(txn, 3)) > 0) THEN Reject("InvalidArgument")
    ELSE IF ~PublishPutsOK(g, txn) THEN Reject("ValueTooLong")
    ELSE Approve(PublishWrites(g, txn, now), << >>,
                 << PublishLog(PublishWrites(g, txn, now), txn) >>, << >>)

\* Lines 73-77.  Concat takes byte strings only.
ModelLogs(g, txn, id) ==
    << L_MODEL_DATA \o Arg(txn, 1),
       L_CID \o ModelField(g, id, R_cid).v,
       L_PUBLISHER \o ModelField(g, id, R_pub).v,
       L_LICENSE \o ModelField(g, id, R_lic).v,
       L_TIMESTAMP \o ModelField(g, id, R_ts).v >>

get_model(g, txn) ==
    IF Len(txn.args) # 2 THEN Reject("InvalidArgument")
    ELSE IF ~BtoiOK(Arg(txn, 1)) THEN Reject("InvalidArgument")
    ELSE LET id == Btoi(Arg(txn, 1))
         IN  IF ~(id > 0) THEN Reject("InvalidArgument")
             ELSE IF ~(id <= ModelCount(g)) THEN Reject("InvalidArgument")
             ELSE IF \E f \in {R_cid, R_pub, R_lic, R_ts} : ModelField(g, id, f).t # "b"
                  THEN Reject("TypeError")
             ELSE Approve(g, << >>, ModelLogs(g, txn, id), << >>)

get_model_count(g, txn) ==
    Approve(g, << >>, << L_MODEL_COUNT \o Itob(ModelCount(g)) >>, << >>)

\* Lines 89-104.  And() evaluates both of its arguments, and Len takes a
\* byte string only: when the cid entry is absent, globalGet yields the
\* integer 0 and Len fails the program.
model_exists(g, txn) ==
    IF Len(txn.args) # 2 THEN Reject("InvalidArgument")
    ELSE IF ~BtoiOK(Arg(txn, 1)) THEN Reject("InvalidArgument")
    ELSE LET id == Btoi(Arg(txn, 1))
             cid == ModelField(g, id, R_cid)
         IN  IF ~(id > 0) THEN Reject("InvalidArgument")
             ELSE IF cid.t # "b" THEN Reject("TypeError")
             ELSE Approve(g, << >>,
                          << L_MODEL_EXISTS
                               \o (IF id <= ModelCount(g) /\ Len(cid.v) > 0 THEN L_ONE ELSE L_ZERO) >>,
                          << >>)

\* The dispatch of ModelRegistry for a call to the created application.
model_program(g, txn, now) ==
    IF Len(txn.args) = 0 THEN Reject("InvalidArgument")
    ELSE IF IsMethod(txn, M_publish_model) THEN publish_model(g, txn, now)
    ELSE IF IsMethod(txn, M_get_model) THEN get_model(g, txn)
    ELSE IF IsMethod(txn, M_get_model_count) THEN get_model_count(g, txn)
    ELSE IF IsMethod(txn, M_model_exists) THEN model_exists(g, txn)
    ELSE IF txn.oc = "OptIn" THEN Approve(g, << >>, << >>, << >>)
    ELSE IF txn.oc = "CloseOut" THEN Approve(g, << >>, << >>, << >>)
    ELSE IF txn.oc = "UpdateApplication" THEN Reject("Rejected")
    ELSE IF txn.oc = "DeleteApplication" THEN Reject("Rejected")
    ELSE Reject("Rejected")

\* on_creation of ModelRegistry: model_count := 0.
model_on_creation == globalPut(<< >>, model_count_key, U(0))

(***************************************************************************)
(* State.                                                                  *)
(*   global   the application's global state                               *)
(*   balance  the custodial balance in microunits, counting the funds the  *)
(*            application's own operations moved                           *)
(*   now      Global.latest_timestamp()                                    *)
(*   paid     the inner payments committed so far: for each escrow id, the *)
(*            payments issued by calls made with that id, in order         *)
(*   last     the latest application call and what it yielded              *)
(*   registry the global state of the NameRegistry application             *)
(*   models   the global state of the ModelRegistry application            *)
(*   events   the audit trail of the Escrow application: the logs of the   *)
(*            committed calls, in order (kept in the runs of SpecAudit)    *)
(*   simple   the boxes of the NameRegistrySimple application              *)
(*   gone     the applications that an approved UpdateApplication or       *)
(*            DeleteApplication call has replaced or removed; they are     *)
(*            followed no further                                          *)
(***************************************************************************)
VARIABLES global, balance, now, paid, last, registry, models, events, simple, gone

vars == <<global, balance, now, paid, last, registry, models, events, simple, gone>>

\* The callers.
Buyer == Addr(1)
Publisher == Addr(2)
Other == Addr(3)
Accounts == {Buyer, Publisher, Other}

ModelIds == {7}
\* The (publisher argument, price) pairs escrows are requested with.
Orders == {<<Publisher, 2500>>, <<Publisher, 999>>}
OnCompletions == {"NoOp", "OptIn", "CloseOut", "UpdateApplication", "DeleteApplication"}

\* The ids of the existing escrows, and the two nearest ids out of range.
Ids(g) == 1..Count(g)
OutOfRange(g) == {0, Count(g) + 1}

\* The method name of a call (empty when it has no arguments).
Method(txn) == IF Len(txn.args) = 0 THEN << >> ELSE Arg(txn, 0)

NoCall == [method |-> << >>, oc |-> "none", ok |-> FALSE, err |-> "none",
           logs |-> << >>, itxns |-> << >>, submit |-> << >>]

\* The payments of a committed group that reach the custodial account.
RECURSIVE Inbound(_)
Inbound(group) ==
    IF Len(group) = 0 THEN 0
    ELSE (IF group[1].type = "pay" /\ group[1].receiver = AppAddr THEN group[1].amount ELSE 0)
         + Inbound(Tail(group))

\* The inner payments of a call, total.
RECURSIVE Outbound(_)
Outbound(itxns) ==
    IF Len(itxns) = 0 THEN 0 ELSE itxns[1].amount + Outbound(Tail(itxns))

\* The ledger's record of the inner payments, by the escrow id of the
\* call that issued them, with those of one more call added.
Issued(p, txn, itxns) ==
    IF Len(itxns) = 0 THEN p
    ELSE LET id == Btoi(Arg(txn, 1))
         IN  [x \in (DOMAIN p) \cup {id} |->
                 IF x = id THEN (IF id \in DOMAIN p THEN p[id] ELSE << >>) \o itxns ELSE p[x]]

\* What a call leaves behind: everything when the program approves,
\* nothing when it fails (the group is not committed).
Commit(txn, r) ==
    /\ global' = IF r.ok THEN r.global ELSE global
    /\ balance' = IF r.ok THEN balance + Inbound(txn.group) - Outbound(r.itxns) ELSE balance
    /\ paid' = IF r.ok THEN Issued(paid, txn, r.itxns) ELSE paid
    /\ last' = [method |-> Method(txn), oc |-> txn.oc, ok |-> r.ok, err |-> r.err,
                logs |-> r.logs, itxns |-> r.itxns, submit |-> r.submit]
    /\ UNCHANGED <<now, registry, models, events, simple, gone>>

\* One application call, evaluated and committed atomically.
Request(txn) == Commit(txn, program(global, balance, txn, now))

Init ==
    /\ global = on_creation
    /\ balance = 0
    /\ now = StartTime
    /\ paid = << >>
    /\ last = NoCall
    /\ registry = << >>
    /\ models = model_on_creation
    /\ events = << >>
    /\ simple = << >>
    /\ gone = {}

\* An application call on its own, and one grouped after a payment.
Call(caller, oc, args) ==
    [sender |-> caller, oc |-> oc, args |-> args, group |-> <<ApplTxn(caller)>>]
PaidCall(caller, args, payment) ==
    [sender |-> caller, oc |-> "NoOp", args |-> args, group |-> <<payment, ApplTxn(caller)>>]

CreateArgs(m, pub, price) == <<M_create_escrow, Itob(m), pub, Itob(price)>>

\* create_escrow(model_id, publisher, price) grouped after a payment of
\* exactly price from the buyer to the custodial account, sent by the
\* buyer or by someone else on the buyer's behalf.
GoodCreates ==
    { PaidCall(Buyer, CreateArgs(m, o[1], o[2]), PayTxn(Buyer, AppAddr, o[2])) :
        m \in ModelIds, o \in Orders }
    \cup { PaidCall(Other, CreateArgs(7, Publisher, 2500), PayTxn(Buyer, AppAddr, 2500)) }

\* create_escrow calls that miss one precondition each: no payment, the
\* payment after the call, to another receiver, of another amount, of
\* nothing, and a missing argument.
BadCreates ==
    { Call(Buyer, "NoOp", CreateArgs(7, Publisher, 2500)),
      [sender |-> Buyer, oc |-> "NoOp", args |-> CreateArgs(7, Publisher, 2500),
       group |-> <<ApplTxn(Buyer), PayTxn(Buyer, AppAddr, 2500)>>],
      PaidCall(Buyer, CreateArgs(7, Publisher, 2500), PayTxn(Buyer, Other, 2500)),
      PaidCall(Buyer, CreateArgs(7, Publisher, 2500), PayTxn(Buyer, AppAddr, 999)),
      PaidCall(Buyer, CreateArgs(7, Publisher, 0), PayTxn(Buyer, AppAddr, 0)),
      PaidCall(Buyer, <<M_create_escrow, Itob(7), Publisher>>, PayTxn(Buyer, AppAddr, 2500)) }

CreateCalls == GoodCreates \cup BadCreates

ReleaseCalls(g) ==
    { Call(caller, "NoOp", <<M_release_payment, Itob(id)>>) : caller \in Accounts, id \in Ids(g) }
    \cup { Call(Publisher, "NoOp", <<M_release_payment, Itob(id)>>) : id \in OutOfRange(g) }
    \cup { Call(Publisher, "NoOp", <<M_release_payment>>) }

RefundCalls(g) ==
    { Call(caller, "NoOp", <<M_refund_payment, Itob(id)>>) : caller \in Accounts, id \in Ids(g) }
    \cup { Call(Buyer, "NoOp", <<M_refund_payment, Itob(id)>>) : id \in OutOfRange(g) }
    \cup { Call(Buyer, "NoOp", <<M_refund_payment>>) }

StatusCalls(g) ==
    { Call(Other, "NoOp", <<M_get_escrow_status, Itob(id)>>) : id \in Ids(g) \cup OutOfRange(g) }

CountCalls == { Call(Other, "NoOp", <<M_get_escrow_count>>) }

\* OptIn, CloseOut, UpdateApplication and DeleteApplication calls (with a
\* method name, with none), and NoOp calls that name no method.
OtherCalls ==
    { Call(Other, oc, <<M_release_payment, Itob(1)>>) : oc \in OnCompletions \ {"NoOp"} }
    \cup { Call(Other, "OptIn", << >>), Call(Other, "NoOp", <<L_COLON>>) }

CreateEscrow ==
    /\ Count(global) < MaxEscrows
    /\ \E txn \in CreateCalls : Request(txn)

ReleasePayment == \E txn \in ReleaseCalls(global) : Request(txn)

RefundPayment == \E txn \in RefundCalls(global) : Request(txn)

GetEscrowStatus == \E txn \in StatusCalls(global) : Request(txn)

GetEscrowCount == \E txn \in CountCalls : Request(txn)

OtherCall == \E txn \in OtherCalls : Request(txn)

\* The ledger's clock advances.
Tick ==
    /\ \E d \in {RefundTimeout, RefundTimeout + 1} :
         /\ now + d <= StartTime + Horizon
         /\ now' = now + d
    /\ last' = NoCall
    /\ UNCHANGED <<global, balance, paid, registry, models, events, simple, gone>>

Next ==
    \/ CreateEscrow
    \/ ReleasePayment
    \/ RefundPayment
    \/ GetEscrowStatus
    \/ GetEscrowCount
    \/ OtherCall
    \/ Tick

Spec == Init /\ [][Next]_vars

(***************************************************************************)
(* Escrows whose publisher argument is not an account identifier.          *)
(* create_escrow stores the argument as it comes.                          *)
(***************************************************************************)
\* 31 bytes: the publisher's address without its last byte.
ShortPublisher == SubSeq(Publisher, 1, AddrLen - 1)

\* A publisher argument of 111 bytes: with the 18 bytes of its key, one
\* byte more than an entry of the global state holds.
LongPublisher == [i \in 1..(MaxKeyValueLen - Len(escrow_key(1, K_publisher)) + 1) |-> 2]

\* create_escrow with a publisher argument of 32, of 31, of 0 and of 111
\* bytes.
PartyCreates ==
    { PaidCall(Buyer, CreateArgs(7, pub, 2500), PayTxn(Buyer, AppAddr, 2500)) :
        pub \in {Publisher, ShortPublisher, << >>, LongPublisher} }

CreateForParty ==
    /\ Count(global) < MaxEscrows
    /\ \E txn \in PartyCreates : Request(txn)

NextParties ==
    \/ CreateForParty
    \/ ReleasePayment
    \/ RefundPayment
    \/ GetEscrowStatus
    \/ Tick

SpecParties == Init /\ [][NextParties]_vars

(***************************************************************************)
(* The audit trail.  The ledger keeps the logs of every committed call     *)
(* with the call; those of a failed call are not kept.                     *)
(***************************************************************************)
\* The longest trail to which a query still adds its logs.
MaxEvents == 2

\* What a call leaves behind, the audit trail included.
CommitAudit(txn, r) ==
    /\ global' = IF r.ok THEN r.global ELSE global
    /\ balance' = IF r.ok THEN balance + Inbound(txn.group) - Outbound(r.itxns) ELSE balance
    /\ paid' = IF r.ok THEN Issued(paid, txn, r.itxns) ELSE paid
    /\ events' = IF r.ok THEN events \o r.logs ELSE events
    /\ last' = [method |-> Method(txn), oc |-> txn.oc, ok |-> r.ok, err |-> r.err,
                logs |-> r.logs, itxns |-> r.itxns, submit |-> r.submit]
    /\ UNCHANGED <<now, registry, models, simple, gone>>

AuditRequest(txn) == CommitAudit(txn, program(global, balance, txn, now))

\* The creations of the runs that keep the trail: one that meets every
\* precondition and one whose payment is of another amount.
AuditCreates ==
    { PaidCall(Buyer, CreateArgs(7, Publisher, 2500), PayTxn(Buyer, AppAddr, a)) :
        a \in {2500, 999} }

\* Settlements of the existing escrows by the party entitled to them and
\* by a third party.
AuditSettles(g) ==
    { Call(caller, "NoOp", <<M_release_payment, Itob(id)>>) :
        caller \in {Publisher, Other}, id \in Ids(g) }
    \cup { Call(caller, "NoOp", <<M_refund_payment, Itob(id)>>) :
             caller \in {Buyer, Other}, id \in Ids(g) }

\* The clock of these runs advances once, past the refund timeout.
AuditTick ==
    /\ now + RefundTimeout + 1 <= StartTime + Horizon
    /\ now' = now + RefundTimeout + 1
    /\ last' = NoCall
    /\ UNCHANGED <<global, balance, paid, registry, models, events, simple, gone>>

\* The trail is followed while it holds fewer than MaxEvents logs: past
\* that, the approved queries, which only add logs to it, are left out of
\* the runs.
AuditQuery(txn) ==
    /\ program(global, balance, txn, now).ok => Len(events) < MaxEvents
    /\ AuditRequest(txn)

NextAudit ==
    \/ (Count(global) < MaxEscrows /\ \E txn \in AuditCreates : AuditRequest(txn))
    \/ \E txn \in AuditSettles(global) : AuditRequest(txn)
    \/ \E txn \in StatusCalls(global) : AuditQuery(txn)
    \/ \E txn \in CountCalls : AuditQuery(txn)
    \/ AuditRequest(Call(Other, "OptIn", << >>))
    \/ AuditTick

SpecAudit == Init /\ [][NextAudit]_vars

(***************************************************************************)
(* The name registry.  Calls are made by two users, on two names.          *)
(***************************************************************************)
Alice == Addr(5)
Bob == Addr(6)
Users == {Alice, Bob}

\* "a", "b"
Names == {<<97>>, <<98>>}
\* A name of 64 bytes, the longest the registry takes.
Name64 == [i \in 1..MaxNameLen |-> 97]
\* A name of 65 bytes.
LongName == [i \in 1..(MaxNameLen + 1) |-> 97]
\* "Q", "R": content references; 5, 6: prices.
Cid1 == <<81>>
Cid2 == <<82>>
Price1 == Itob(5)
Price2 == Itob(6)

\* A content reference that, with the key it is stored under, is one byte
\* more than an entry of the global state holds.
LongCid(key) == [i \in 1..(MaxKeyValueLen - Len(key) + 1) |-> 81]

\* A call to a registry is a transaction on its own.
RegisterCalls ==
    { Call(u, "NoOp", <<M_register, n, Cid1, Price1>>) : u \in Users, n \in Names }
    \cup { Call(Alice, "NoOp", <<M_register, << >>, Cid1, Price1>>),
           Call(Alice, "NoOp", <<M_register, LongName, Cid1, Price1>>),
           Call(Alice, "NoOp", <<M_register, Name64, Cid1, Price1>>),
           Call(Alice, "NoOp", <<M_register, <<97>>, << >>, Price1>>),
           Call(Alice, "NoOp", <<M_register, <<97>>, LongCid(name_key(<<97>>, P_cid)), Price1>>),
           Call(Alice, "NoOp", <<M_register, <<97>>, Cid1>>) }

ResolveCalls == { Call(Bob, "NoOp", <<M_resolve, n>>) : n \in Names }

\* update with another content reference and with an empty one.
UpdateCalls ==
    { Call(u, "NoOp", <<M_update, n, c, Price2>>) : u \in Users, n \in Names, c \in {Cid2, << >>} }
    \cup { Call(Alice, "NoOp", <<M_update, <<97>>, Cid2>>) }

\* The identity of 32 zero bytes.
ZeroAddr == [i \in 1..AddrLen |-> 0]

\* transfer to the other user, to oneself, to the zero identity and to
\* 31 bytes.
TransferCalls ==
    { Call(u, "NoOp", <<M_transfer, n, to>>) : u \in Users, n \in Names, to \in Users \cup {ZeroAddr} }
    \cup { Call(u, "NoOp", <<M_transfer, n, SubSeq(Bob, 1, AddrLen - 1)>>) : u \in Users, n \in Names }

DeleteCalls == { Call(u, "NoOp", <<M_delete, n>>) : u \in Users, n \in Names }

ExistsCalls == { Call(Bob, "NoOp", <<M_exists, n>>) : n \in Names }

\* Application update and delete calls by a user, a call without
\* arguments and one naming no method.
AdminCalls ==
    { Call(Bob, oc, <<M_delete, <<97>>>>) : oc \in {"UpdateApplication", "DeleteApplication"} }
    \cup { Call(Bob, "NoOp", << >>), Call(Bob, "NoOp", <<L_COLON>>) }

\* The applications gone after one more call: an approved
\* UpdateApplication replaces the program, an approved DeleteApplication
\* removes the application.
Retired(apps, app, txn, r) ==
    IF r.ok /\ txn.oc \in {"UpdateApplication", "DeleteApplication"} THEN apps \cup {app} ELSE apps

\* What a call to NameRegistry leaves behind.
CommitName(txn, r) ==
    /\ registry' = IF r.ok THEN r.global ELSE registry
    /\ last' = [method |-> Method(txn), oc |-> txn.oc, ok |-> r.ok, err |-> r.err,
                logs |-> r.logs, itxns |-> r.itxns, submit |-> r.submit]
    /\ gone' = Retired(gone, "NameRegistry", txn, r)
    /\ UNCHANGED <<global, balance, now, paid, models, events, simple>>

NameRequest(txn) ==
    /\ "NameRegistry" \notin gone
    /\ CommitName(txn, name_program(registry, txn, now))

NameRegister == \E txn \in RegisterCalls : NameRequest(txn)
NameResolve == \E txn \in ResolveCalls : NameRequest(txn)
NameUpdate == \E txn \in UpdateCalls : NameRequest(txn)
NameTransfer == \E txn \in TransferCalls : NameRequest(txn)
NameDelete == \E txn \in DeleteCalls : NameRequest(txn)
NameExists == \E txn \in ExistsCalls : NameRequest(txn)
NameAdmin == \E txn \in AdminCalls : NameRequest(txn)

NextNames ==
    \/ NameRegister
    \/ NameResolve
    \/ NameUpdate
    \/ NameTransfer
    \/ NameDelete
    \/ NameExists
    \/ NameAdmin

SpecNames == Init /\ [][NextNames]_vars

(***************************************************************************)
(* NameRegistrySimple: two users register the two names with either        *)
(* content reference and either price.                                     *)
(***************************************************************************)
\* "QQ": a content reference of two bytes.
Cid3 == <<81,81>>

SimpleRegisterCalls ==
    { Call(u, "NoOp", <<M_register, n, c, p>>) :
          u \in Users, n \in Names, c \in {Cid1, Cid2}, p \in {Price1, Price2} }
    \cup { Call(Bob, "NoOp", <<M_register, <<97>>, Cid3, Price1>>),
           Call(Alice, "NoOp", <<M_register, <<98>>, << >>, Price1>>),
           Call(Alice, "NoOp", <<M_register, << >>, Cid1, Price1>>),
           Call(Alice, "NoOp", <<M_register, LongName, Cid1, Price1>>),
           Call(Alice, "NoOp", <<M_register, <<97>>, Cid1>>) }

\* The creator's DeleteApplication call, next to the users' calls.
SimpleOtherCalls ==
    AdminCalls \cup UpdateCalls \cup { Call(Creator, "DeleteApplication", <<L_COLON>>) }

\* What a call to NameRegistrySimple leaves behind.
CommitSimple(txn, r) ==
    /\ simple' = IF r.ok THEN r.global ELSE simple
    /\ last' = [method |-> Method(txn), oc |-> txn.oc, ok |-> r.ok, err |-> r.err,
                logs |-> r.logs, itxns |-> r.itxns, submit |-> r.submit]
    /\ gone' = Retired(gone, "NameRegistrySimple", txn, r)
    /\ UNCHANGED <<global, balance, now, paid, registry, models, events>>

SimpleRequest(txn) ==
    /\ "NameRegistrySimple" \notin gone
    /\ CommitSimple(txn, simple_program(simple, txn))

SimpleRegister == \E txn \in SimpleRegisterCalls : SimpleRequest(txn)
SimpleResolve == \E txn \in ResolveCalls : SimpleRequest(txn)
SimpleOther == \E txn \in SimpleOtherCalls : SimpleRequest(txn)

NextSimple ==
    \/ SimpleRegister
    \/ SimpleResolve
    \/ SimpleOther

SpecSimple == Init /\ [][NextSimple]_vars

(***************************************************************************)
(* The model registry.  Models are published by two users; anyone reads.   *)
(***************************************************************************)
MaxModels == 3

\* "MIT"
License1 == <<77,73,84>>

\* publish_model(cid, publisher, license), and calls that miss one
\* precondition each: an empty cid, an empty license, a missing and an
\* extra argument.
PublishCalls ==
    { Call(u, "NoOp", <<M_publish_model, c, u, License1>>) : u \in Users, c \in {Cid1, Cid2} }
    \cup { Call(Alice, "NoOp", <<M_publish_model, << >>, Alice, License1>>),
           Call(Alice, "NoOp", <<M_publish_model, Cid1, Alice, << >>>>),
           Call(Alice, "NoOp", <<M_publish_model, Cid1, Alice>>),
           Call(Alice, "NoOp", <<M_publish_model, Cid1, Alice, License1, License1>>),
           Call(Alice, "NoOp", <<M_publish_model, LongCid(model_key(1, R_cid)), Alice, License1>>) }

\* The ids of the published models, and the two nearest ids out of range.
ModelIdsOf(g) == 1..ModelCount(g)
ModelOutOfRange(g) == {0, ModelCount(g) + 1}

GetModelCalls(g) ==
    { Call(Bob, "NoOp", <<M_get_model, Itob(id)>>) : id \in ModelIdsOf(g) \cup ModelOutOfRange(g) }
    \cup { Call(Bob, "NoOp", <<M_get_model>>) }

ModelCountCalls == { Call(Bob, "NoOp", <<M_get_model_count>>) }

ModelExistsCalls(g) ==
    { Call(Bob, "NoOp", <<M_model_exists, Itob(id)>>) : id \in ModelIdsOf(g) \cup ModelOutOfRange(g) }
    \cup { Call(Bob, "NoOp", <<M_model_exists, Itob(ModelCount(g) + 2)>>) }

\* Calls of the other kinds, by the creator and by a user, a call without
\* arguments and one naming no method.
ModelOtherCalls ==
    { Call(u, oc, <<M_publish_model, Cid1, u, License1>>) :
        u \in {Creator, Bob}, oc \in OnCompletions \ {"NoOp"} }
    \cup { Call(Bob, "NoOp", << >>), Call(Bob, "NoOp", <<L_COLON>>) }

\* What a call to ModelRegistry leaves behind.
CommitModel(txn, r) ==
    /\ models' = IF r.ok THEN r.global ELSE models
    /\ last' = [method |-> Method(txn), oc |-> txn.oc, ok |-> r.ok, err |-> r.err,
                logs |-> r.logs, itxns |-> r.itxns, submit |-> r.submit]
    /\ UNCHANGED <<global, balance, now, paid, registry, events, simple, gone>>

ModelRequest(txn) == CommitModel(txn, model_program(models, txn, now))

PublishModel ==
    /\ ModelCount(models) < MaxModels
    /\ \E txn \in PublishCalls : ModelRequest(txn)
GetModel == \E txn \in GetModelCalls(models) : ModelRequest(txn)
GetModelCount == \E txn \in ModelCountCalls : ModelRequest(txn)
ModelExists == \E txn \in ModelExistsCalls(models) : ModelRequest(txn)
ModelOther == \E txn \in ModelOtherCalls : ModelRequest(txn)

NextModels ==
    \/ PublishModel
    \/ GetModel
    \/ GetModelCount
    \/ ModelExists
    \/ ModelOther
    \/ Tick

SpecModels == Init /\ [][NextModels]_vars

(***************************************************************************)
(* The content references: the requests that write one, to NameRegistry,   *)
(* to ModelRegistry and to NameRegistrySimple.                             *)
(***************************************************************************)
\* register of "a" in NameRegistrySimple with a content reference and
\* with an empty one.
SimpleCidCalls == { Call(Alice, "NoOp", <<M_register, <<97>>, c, Price1>>) : c \in {Cid1, << >>} }

NextCids ==
    \/ NameRegister
    \/ NameUpdate
    \/ NameTransfer
    \/ NameDelete
    \/ PublishModel
    \/ \E txn \in SimpleCidCalls : SimpleRequest(txn)

SpecCids == Init /\ [][NextCids]_vars

(***************************************************************************)
(* The three stores side by side: records are created in each, under       *)
(* names one of which begins like a key prefix, and escrows are settled.   *)
(***************************************************************************)
\* "a", "aa" and "cid_a".
KeyNames == {<<97>>, <<97,97>>, P_cid \o <<97>>}

KeyCreates == { PaidCall(Buyer, CreateArgs(7, Publisher, 2500), PayTxn(Buyer, AppAddr, 2500)) }
KeySettles(g) ==
    { Call(Publisher, "NoOp", <<M_release_payment, Itob(id)>>) : id \in Ids(g) }
    \cup { Call(Buyer, "NoOp", <<M_refund_payment, Itob(id)>>) : id \in Ids(g) }
KeyPublishes == { Call(Alice, "NoOp", <<M_publish_model, Cid1, Alice, License1>>) }
KeyRegisters == { Call(Alice, "NoOp", <<M_register, n, Cid1, Price1>>) : n \in KeyNames }

NextKeys ==
    \/ (Count(global) < MaxEscrows /\ \E txn \in KeyCreates : Request(txn))
    \/ \E txn \in KeySettles(global) : Request(txn)
    \/ (ModelCount(models) < MaxModels /\ \E txn \in KeyPublishes : ModelRequest(txn))
    \/ \E txn \in KeyRegisters : NameRequest(txn)

SpecKeys == Init /\ [][NextKeys]_vars

(***************************************************************************)
(* Application update and delete.  The creator and a user send             *)
(* UpdateApplication and DeleteApplication calls to the four applications, *)
(* without arguments, with an argument that names no method and with a     *)
(* method's name, while each application holds a record.                   *)
(***************************************************************************)
AdminSenders == {Creator, Bob}

AdminArgs == { << >>, <<L_COLON>>, <<M_delete, <<97>>>>, <<M_get_escrow_count>> }

AdminRequests ==
    { Call(u, oc, args) :
          u \in AdminSenders, oc \in {"UpdateApplication", "DeleteApplication"}, args \in AdminArgs }

NextAdmin ==
    \/ (Count(global) < MaxEscrows /\ \E txn \in KeyCreates : Request(txn))
    \/ \E txn \in AdminRequests : Request(txn)
    \/ (ModelCount(models) < MaxModels /\ \E txn \in KeyPublishes : ModelRequest(txn))
    \/ \E txn \in AdminRequests : ModelRequest(txn)
    \/ \E txn \in KeyRegisters : NameRequest(txn)
    \/ \E txn \in AdminRequests : NameRequest(txn)

SpecAdmin == Init /\ [][NextAdmin]_vars

(***************************************************************************)
(* Vocabulary of the properties.                                           *)
(***************************************************************************)
StatusOf(g, id) == Field(g, id, K_status).v
AmountOf(g, id) == Field(g, id, K_amount).v
BuyerOf(g, id) == Field(g, id, K_buyer).v
PublisherOf(g, id) == Field(g, id, K_publisher).v
CreatedOf(g, id) == Btoi(Field(g, id, K_created).v)

IsPending(g, id) == StatusOf(g, id) = STATUS_PENDING
IsTerminal(g, id) == StatusOf(g, id) \in {STATUS_RELEASED, STATUS_REFUNDED}

\* The fields create_escrow writes, those fixed at creation, and the two
\* timestamps of the terminal statuses.
RecordFields == {K_model, K_buyer, K_publisher, K_amount, K_status, K_created}
FixedFields == {K_model, K_buyer, K_publisher, K_amount, K_created}
StampFields == {K_released, K_refunded}

\* Whether field `suffix` of escrow `id` is stored.
IsSet(g, id, suffix) == escrow_key(id, suffix) \in DOMAIN g

\* The release_payment and refund_payment calls made with escrow id `id`.
ReleasesOn(g, id) == { txn \in ReleaseCalls(g) : Len(txn.args) = 2 /\ Btoi(Arg(txn, 1)) = id }
RefundsOn(g, id) == { txn \in RefundCalls(g) : Len(txn.args) = 2 /\ Btoi(Arg(txn, 1)) = id }

\* What the program yields for a call made in the current state.
Outcome(txn) == program(global, balance, txn, now)

\* The payments issued so far by calls made with escrow id `id`.
PaidFor(id) == IF id \in DOMAIN paid THEN paid[id] ELSE << >>

LastWas(method) == last.oc = "NoOp" /\ last.method = method

\* Whether a name has a record in NameRegistry, and its fields.
Registered(g, name) == name_key(name, P_owner) \in DOMAIN g
OwnerOf(g, name) == globalGet(g, name_key(name, P_owner)).v
CidOf(g, name) == globalGet(g, name_key(name, P_cid)).v
PriceOf(g, name) == globalGet(g, name_key(name, P_price)).v

\* What the name registries yield for a call made in the current state.
NameOutcome(txn) == name_program(registry, txn, now)
WorkingOutcome(txn) == working_program(txn)

\* What the model registry yields for a call made in the current state.
ModelOutcome(txn) == model_program(models, txn, now)

\* Whether a name has a box in NameRegistrySimple, and its fields.
Boxed(bx, name) == name \in DOMAIN bx
BoxCid(bx, name) == SubSeq(bx[name], AddrLen + WordLen + 1, Len(bx[name]))
BoxPrice(bx, name) == SubSeq(bx[name], AddrLen + 1, AddrLen + WordLen)

\* The calls of a set that address `name` with `k` arguments.
CallsOn(calls, name, k) == { txn \in calls : Len(txn.args) = k /\ Arg(txn, 1) = name }

(***************************************************************************)
(* C1.  The stored status of an escrow changes only from Pending to        *)
(* Released or from Pending to Refunded; a Released or Refunded escrow     *)
(* keeps its status for ever, and every release_payment or refund_payment  *)
(* made against it fails.                                                  *)
(***************************************************************************)
C1_TerminalRejects ==
    \A id \in Ids(global) :
        IsTerminal(global, id) =>
            \A txn \in ReleasesOn(global, id) \cup RefundsOn(global, id) : ~Outcome(txn).ok

C1_StatusStep ==
    \A id \in Ids(global) :
        StatusOf(global', id) # StatusOf(global, id) =>
            /\ StatusOf(global, id) = STATUS_PENDING
            /\ StatusOf(global', id) \in {STATUS_RELEASED, STATUS_REFUNDED}

C1_StatusMonotone == [] C1_TerminalRejects /\ [][C1_StatusStep]_vars

\* A release_payment has just been refused on an escrow that was refunded.
C1_Witness ==
    /\ LastWas(M_release_payment) /\ ~last.ok /\ last.err = "InvalidState"
    /\ Count(global) = 1 /\ StatusOf(global, 1) = STATUS_REFUNDED

(***************************************************************************)
(* C2.  At most one payment is ever issued for an escrow id; once one has  *)
(* been issued, every later release_payment or refund_payment on that id,  *)
(* by any caller, fails on the status check (InvalidState) and issues no   *)
(* payment.                                                                *)
(***************************************************************************)
C2_AtMostOneTransfer ==
    /\ DOMAIN paid \subseteq Ids(global)
    /\ \A id \in Ids(global) :
          /\ Len(PaidFor(id)) <= 1
          /\ Len(PaidFor(id)) = 1 =>
                \A txn \in ReleasesOn(global, id) \cup RefundsOn(global, id) :
                    /\ ~Outcome(txn).ok
                    /\ Outcome(txn).err = "InvalidState"
                    /\ Outcome(txn).itxns = << >>

\* Escrow 1 was released and paid once, and a refund_payment has just
\* been refused.
C2_Witness ==
    /\ LastWas(M_refund_payment) /\ ~last.ok /\ last.err = "InvalidState"
    /\ Count(global) = 1 /\ StatusOf(global, 1) = STATUS_RELEASED
    /\ Len(PaidFor(1)) = 1

(***************************************************************************)
(* C3.  release_payment on a Pending escrow succeeds only for the caller   *)
(* that equals the stored publisher; for every other caller (the buyer     *)
(* included) it fails as Unauthorized, and a failed release_payment leaves *)
(* the status, the balance and the payments as they were.                  *)
(***************************************************************************)
C3_OnlyPublisher ==
    \A id \in Ids(global) :
        IsPending(global, id) =>
            \A txn \in ReleasesOn(global, id) :
                /\ Outcome(txn).ok => txn.sender = PublisherOf(global, id)
                /\ txn.sender # PublisherOf(global, id) =>
                      ~Outcome(txn).ok /\ Outcome(txn).err = "Unauthorized"

C3_FailedReleaseStep ==
    (last'.oc = "NoOp" /\ last'.method = M_release_payment /\ ~last'.ok)
        => UNCHANGED <<global, balance, paid>>

C3_ReleaseAuthorization == [] C3_OnlyPublisher /\ [][C3_FailedReleaseStep]_vars

\* The buyer's release_payment on a Pending escrow has just been refused
\* as Unauthorized; nothing was paid.
C3_Witness ==
    /\ LastWas(M_release_payment) /\ ~last.ok /\ last.err = "Unauthorized"
    /\ Count(global) = 1 /\ IsPending(global, 1) /\ PublisherOf(global, 1) = Publisher
    /\ PaidFor(1) = << >> /\ balance = AmountOf(global, 1)

(***************************************************************************)
(* C4.  refund_payment on a Pending escrow by a caller other than the      *)
(* stored buyer fails as Unauthorized while now <= created_at + 604800     *)
(* (the instant created_at + 604800 included), and succeeds for every      *)
(* caller once now > created_at + 604800, paying the stored buyer.         *)
(***************************************************************************)
C4_RefundByNonBuyer ==
    \A id \in Ids(global) :
        IsPending(global, id) =>
            \A txn \in RefundsOn(global, id) :
                txn.sender # BuyerOf(global, id) =>
                    IF now <= CreatedOf(global, id) + RefundTimeout
                    THEN ~Outcome(txn).ok /\ Outcome(txn).err = "Unauthorized"
                    ELSE /\ Outcome(txn).ok
                         /\ Len(Outcome(txn).itxns) = 1
                         /\ Outcome(txn).itxns[1].receiver = BuyerOf(global, id)

\* Past the timeout of a Pending escrow of 999 microunits, a third party's
\* refund_payment is refused: the payment amount 999 - 1000 underflows.
C4_Witness ==
    /\ Count(global) = 1 /\ IsPending(global, 1) /\ AmountOf(global, 1) = 999
    /\ now > CreatedOf(global, 1) + RefundTimeout
    /\ \E txn \in RefundsOn(global, 1) :
          /\ txn.sender = Other
          /\ ~Outcome(txn).ok /\ Outcome(txn).err = "ArithmeticError"

(***************************************************************************)
(* C5.  No escrow's funds are stuck for ever: for every escrow that        *)
(* create_escrow accepted, once now > created_at + 7 days some             *)
(* refund_payment request on it is approved while it is still Pending.     *)
(***************************************************************************)
C5_RefundAvailable ==
    \A id \in Ids(global) :
        (IsPending(global, id) /\ now > CreatedOf(global, id) + RefundTimeout) =>
            \E txn \in RefundsOn(global, id) : Outcome(txn).ok

\* A refund_payment on the Pending escrow of 999 microunits has just been
\* refused past its timeout; the 999 stay in custody.
C5_Witness ==
    /\ LastWas(M_refund_payment) /\ ~last.ok /\ last.err = "ArithmeticError"
    /\ Count(global) = 1 /\ IsPending(global, 1) /\ balance = 999
    /\ now > CreatedOf(global, 1) + RefundTimeout

(***************************************************************************)
(* C6.  In release_payment and in refund_payment the terminal status and   *)
(* its timestamp are written before the inner payment is submitted: the    *)
(* global state as it stands at the submission already is the state the    *)
(* call commits, it shows the escrow Released (resp. Refunded), and every  *)
(* release_payment or refund_payment on the same escrow evaluated on it    *)
(* is refused on the status check and issues no payment.                   *)
(***************************************************************************)
C6_SubmitSeesTerminal(txn, id, status, stamp) ==
    LET r == Outcome(txn)
    IN  r.ok =>
          /\ r.submit = r.global
          /\ StatusOf(r.submit, id) = status
          /\ escrow_key(id, stamp) \in DOMAIN r.submit
          /\ \A again \in ReleasesOn(global, id) \cup RefundsOn(global, id) :
                LET r2 == program(r.submit, balance, again, now)
                IN  ~r2.ok /\ r2.err = "InvalidState" /\ r2.itxns = << >>

C6_WriteBeforeTransfer ==
    /\ \A id \in Ids(global) :
          /\ \A txn \in ReleasesOn(global, id) :
                C6_SubmitSeesTerminal(txn, id, STATUS_RELEASED, K_released)
          /\ \A txn \in RefundsOn(global, id) :
                C6_SubmitSeesTerminal(txn, id, STATUS_REFUNDED, K_refunded)
    /\ (last.ok /\ last.itxns # << >>) => last.submit = global

\* A release_payment has just been approved: when its payment was
\* submitted, escrow 1 already stood Released.
C6_Witness ==
    /\ LastWas(M_release_payment) /\ last.ok /\ Len(last.itxns) = 1
    /\ StatusOf(last.submit, 1) = STATUS_RELEASED
    /\ escrow_key(1, K_released) \in DOMAIN last.submit

(***************************************************************************)
(* C7.  create_escrow is approved only as the second transaction of a      *)
(* group of two whose first is a payment to the custodial address of       *)
(* exactly the price argument, with price > 0; when the payment is         *)
(* missing, goes elsewhere or differs from the price, the call fails       *)
(* (PaymentMismatch) and writes no record, leaves escrow_count and the     *)
(* custodial balance as they were.  An approved create_escrow raises the   *)
(* custodial balance by exactly the recorded amount, which is the price.   *)
(***************************************************************************)
PaymentMatches(txn) ==
    /\ Len(txn.group) = 2
    /\ txn.group[1].type = "pay" /\ txn.group[2].type = "appl"
    /\ txn.group[1].receiver = AppAddr
    /\ txn.group[1].amount = Btoi(Arg(txn, 3))

C7_CreateNeedsPayment ==
    \A txn \in CreateCalls :
        LET r == Outcome(txn)
        IN  /\ r.ok =>
                  /\ Len(txn.args) = 4 /\ PaymentMatches(txn) /\ Btoi(Arg(txn, 3)) > 0
                  /\ Count(r.global) = Count(global) + 1
                  /\ AmountOf(r.global, Count(r.global)) = Btoi(Arg(txn, 3))
            /\ (Len(txn.args) = 4 /\ ~PaymentMatches(txn)) =>
                  ~r.ok /\ r.err = "PaymentMismatch"

C7_CreateStep ==
    (last'.oc = "NoOp" /\ last'.method = M_create_escrow) =>
        IF last'.ok
        THEN /\ Count(global') = Count(global) + 1
             /\ balance' = balance + AmountOf(global', Count(global'))
             /\ DOMAIN global' = DOMAIN global \cup
                   { escrow_key(Count(global'), k) :
                       k \in {K_model, K_buyer, K_publisher, K_amount, K_status, K_created} }
        ELSE UNCHANGED <<global, balance, paid>>

C7_AtomicCreate == [] C7_CreateNeedsPayment /\ [][C7_CreateStep]_vars

\* After one funded escrow, a create_escrow whose payment did not match
\* has just been refused: still one record, the balance still its amount.
C7_Witness ==
    /\ LastWas(M_create_escrow) /\ ~last.ok /\ last.err = "PaymentMismatch"
    /\ Count(global) = 1 /\ balance = AmountOf(global, 1) /\ balance = 2500

(***************************************************************************)
(* C8.  An approved release_payment issues exactly one payment, of         *)
(* amount - 1000, to the publisher stored in the escrow; an approved       *)
(* refund_payment issues exactly one, of amount - 1000, to the stored      *)
(* buyer.  No other call issues a payment, and no payment ever issued      *)
(* went to any other account.                                              *)
(***************************************************************************)
C8_Payouts ==
    /\ \A id \in Ids(global) :
          /\ \A txn \in ReleasesOn(global, id) :
                Outcome(txn).ok =>
                    Outcome(txn).itxns =
                        << InnerPay(PublisherOf(global, id), AmountOf(global, id) - ProtocolFee) >>
          /\ \A txn \in RefundsOn(global, id) :
                Outcome(txn).ok =>
                    Outcome(txn).itxns =
                        << InnerPay(BuyerOf(global, id), AmountOf(global, id) - ProtocolFee) >>
    /\ \A txn \in CreateCalls \cup StatusCalls(global) \cup CountCalls \cup OtherCalls :
          Outcome(txn).itxns = << >>
    /\ \A id \in DOMAIN paid :
          \A i \in 1..Len(paid[id]) :
              /\ paid[id][i].amount = AmountOf(global, id) - ProtocolFee
              /\ StatusOf(global, id) = STATUS_RELEASED => paid[id][i].receiver = PublisherOf(global, id)
              /\ StatusOf(global, id) = STATUS_REFUNDED => paid[id][i].receiver = BuyerOf(global, id)
              /\ IsTerminal(global, id)

\* A refund_payment has just been approved and paid 2500 - 1000 to the
\* buyer of escrow 1.
C8_Witness ==
    /\ LastWas(M_refund_payment) /\ last.ok
    /\ last.itxns = << InnerPay(Buyer, 1500) >>
    /\ PaidFor(1) = << InnerPay(Buyer, 1500) >>
    /\ PublisherOf(global, 1) = Publisher

(***************************************************************************)
(* C9.  The total paid out equals the sum of amount - fee over the         *)
(* terminal escrows and equals the total decrease of the custodial         *)
(* balance; for each escrow the total paid out is at most amount - fee.    *)
(***************************************************************************)
RECURSIVE SumAmounts(_)
\* The total of a sequence of payments.
SumAmounts(payments) ==
    IF Len(payments) = 0 THEN 0 ELSE payments[1].amount + SumAmounts(Tail(payments))

RECURSIVE TotalPaid(_, _)
\* The total of the payments p holds for the ids 1..n.
TotalPaid(p, n) ==
    IF n = 0 THEN 0
    ELSE TotalPaid(p, n - 1) + (IF n \in DOMAIN p THEN SumAmounts(p[n]) ELSE 0)

RECURSIVE TerminalPayouts(_, _)
\* The sum of amount - fee over the terminal escrows among 1..n.
TerminalPayouts(g, n) ==
    IF n = 0 THEN 0
    ELSE TerminalPayouts(g, n - 1)
         + (IF IsTerminal(g, n) THEN AmountOf(g, n) - ProtocolFee ELSE 0)

RECURSIVE TotalDeposited(_, _)
\* The sum of the amounts paid in for the escrows 1..n.
TotalDeposited(g, n) ==
    IF n = 0 THEN 0 ELSE TotalDeposited(g, n - 1) + AmountOf(g, n)

C9_TotalsAgree == TotalPaid(paid, Count(global)) = TerminalPayouts(global, Count(global))

\* What the custodial balance lost is what was paid in less what is left.
C9_BalanceAgrees ==
    TotalDeposited(global, Count(global)) - balance = TotalPaid(paid, Count(global))

C9_PerEscrowBound ==
    \A id \in Ids(global) : SumAmounts(PaidFor(id)) <= AmountOf(global, id) - ProtocolFee

C9_PayoutAccounting == C9_TotalsAgree /\ C9_BalanceAgrees /\ C9_PerEscrowBound

\* An escrow of 999 microunits, less than the fee, stands Pending with
\* nothing paid out.
C9_Witness ==
    /\ Count(global) = 1 /\ IsPending(global, 1)
    /\ AmountOf(global, 1) < ProtocolFee /\ PaidFor(1) = << >>

(***************************************************************************)
(* C10.  The custodial balance decreases only in a step that is an         *)
(* approved release_payment or refund_payment, by the payment issued for   *)
(* one escrow whose record already stood terminal when the payment was     *)
(* submitted; create_escrow, get_escrow_status, get_escrow_count, OptIn    *)
(* and CloseOut calls and failed calls never decrease it.                  *)
(***************************************************************************)
C10_DecreaseStep ==
    balance' < balance =>
        /\ last'.ok /\ last'.oc = "NoOp"
        /\ last'.method \in {M_release_payment, M_refund_payment}
        /\ \E id \in Ids(global) :
              /\ IsPending(global, id)
              /\ IsTerminal(last'.submit, id)
              /\ IsTerminal(global', id)
              /\ paid' = Issued(paid, [args |-> <<last'.method, Itob(id)>>], last'.itxns)
              /\ balance - balance' = SumAmounts(last'.itxns)

C10_QuietStep ==
    (~last'.ok \/ last'.oc # "NoOp"
       \/ last'.method \notin {M_release_payment, M_refund_payment}) => balance' >= balance

C10_OnlyPayoutsDecrease == [][C10_DecreaseStep /\ C10_QuietStep]_vars

\* A refund_payment has just been approved: of the 2500 in custody for
\* escrow 1, now Refunded, 1000 are left.
C10_Witness ==
    /\ LastWas(M_refund_payment) /\ last.ok
    /\ Count(global) = 1 /\ StatusOf(global, 1) = STATUS_REFUNDED
    /\ AmountOf(global, 1) = 2500 /\ balance = 1000

(***************************************************************************)
(* C11.  A request that fails a precondition (argument count, id out of    *)
(* range, status not Pending, wrong caller, payment mismatch) leaves the   *)
(* whole state as it was: the records, escrow_count, the custodial         *)
(* balance (the payment grouped with the call is not taken) and the        *)
(* payments issued; it is refused and issues no transfer.  The failed      *)
(* precondition is read from the request and the stored records.           *)
(***************************************************************************)
\* create_escrow: another number of arguments than 4, no payment of the
\* price to the custodial account before the call, or a payment of nothing.
C11_CreateFails(txn) ==
    \/ Len(txn.args) # 4
    \/ ~PaymentMatches(txn)
    \/ txn.group[1].amount <= 0

\* The id of a request is none of the existing escrows.
C11_OutOfRange(txn) == Btoi(Arg(txn, 1)) \notin Ids(global)

\* release_payment: another number of arguments than 2, an id out of
\* range, an escrow that is not Pending, or a caller other than the
\* recorded publisher.
C11_ReleaseFails(txn) ==
    \/ Len(txn.args) # 2
    \/ C11_OutOfRange(txn)
    \/ ~IsPending(global, Btoi(Arg(txn, 1)))
    \/ txn.sender # PublisherOf(global, Btoi(Arg(txn, 1)))

\* refund_payment: another number of arguments than 2, an id out of range,
\* an escrow that is not Pending, or a caller other than the recorded
\* buyer before the timeout has passed.
C11_RefundFails(txn) ==
    \/ Len(txn.args) # 2
    \/ C11_OutOfRange(txn)
    \/ ~IsPending(global, Btoi(Arg(txn, 1)))
    \/ /\ txn.sender # BuyerOf(global, Btoi(Arg(txn, 1)))
       /\ now <= CreatedOf(global, Btoi(Arg(txn, 1))) + RefundTimeout

\* get_escrow_status: another number of arguments than 2 or an id out of
\* range.
C11_StatusFails(txn) == Len(txn.args) # 2 \/ C11_OutOfRange(txn)

C11_Fails(txn) ==
    IF Method(txn) = M_create_escrow THEN C11_CreateFails(txn)
    ELSE IF Method(txn) = M_release_payment THEN C11_ReleaseFails(txn)
    ELSE IF Method(txn) = M_refund_payment THEN C11_RefundFails(txn)
    ELSE IF Method(txn) = M_get_escrow_status THEN C11_StatusFails(txn)
    ELSE FALSE

C11_Requests ==
    CreateCalls \cup ReleaseCalls(global) \cup RefundCalls(global) \cup StatusCalls(global)

\* What the ledger shows of a request made in the current state.
C11_Record(txn) ==
    LET r == Outcome(txn)
    IN  [method |-> Method(txn), oc |-> txn.oc, ok |-> r.ok, err |-> r.err,
         logs |-> r.logs, itxns |-> r.itxns, submit |-> r.submit]

\* A request that fails a precondition is refused: nothing is written,
\* logged or paid.
C11_FailuresAbort ==
    \A txn \in C11_Requests :
        C11_Fails(txn) =>
            /\ ~Outcome(txn).ok
            /\ Outcome(txn).itxns = << >>
            /\ Outcome(txn).logs = << >>

\* The step of a request that fails a precondition changes neither the
\* records nor the balance nor the payments issued, and issues no
\* transfer: a step that does any of these is the step of no such request.
C11_Changed ==
    \/ global' # global
    \/ balance' # balance
    \/ paid' # paid
    \/ last'.itxns # << >>

C11_FailedStep ==
    C11_Changed =>
        \A txn \in C11_Requests :
            ~(last'.method = Method(txn) /\ C11_Fails(txn) /\ last' = C11_Record(txn))

C11_AllOrNothing == [] C11_FailuresAbort /\ [][C11_FailedStep]_vars

\* A create_escrow grouped with a payment of 2500 to another receiver has
\* just been refused while escrow 1 stood Released: the 1000 left in
\* custody are still what the application holds, and no second escrow was
\* recorded.
C11_Witness ==
    /\ Count(global) = 1 /\ StatusOf(global, 1) = STATUS_RELEASED
    /\ balance = 1000
    /\ LET txn == PaidCall(Buyer, CreateArgs(7, Publisher, 2500), PayTxn(Buyer, Other, 2500))
       IN  /\ txn \in C11_Requests
           /\ C11_Fails(txn)
           /\ last = C11_Record(txn)
           /\ ~last.ok /\ last.err = "PaymentMismatch"

(***************************************************************************)
(* C12.  escrow_count starts at 0, rises by exactly 1 with every approved  *)
(* create_escrow and never falls; the record of an approved create_escrow  *)
(* is stored under the new count (the first under 1), an id already in use *)
(* is never assigned again, and in every reachable state exactly the ids   *)
(* 1..escrow_count have a record.                                          *)
(***************************************************************************)
C12_Dense ==
    /\ \A id \in Ids(global) : \A f \in RecordFields : IsSet(global, id, f)
    /\ \A k \in DOMAIN global :
          \/ k = escrow_count_key
          \/ \E id \in Ids(global) : \E f \in RecordFields \cup StampFields :
                k = escrow_key(id, f)

C12_CountStep ==
    /\ Count(global') >= Count(global)
    /\ Count(global') # Count(global) =>
          /\ Count(global') = Count(global) + 1
          /\ last'.ok /\ last'.oc = "NoOp" /\ last'.method = M_create_escrow
    /\ (last'.ok /\ last'.oc = "NoOp" /\ last'.method = M_create_escrow) =>
          /\ Count(global') = Count(global) + 1
          /\ \A f \in RecordFields :
                /\ ~IsSet(global, Count(global) + 1, f)
                /\ IsSet(global', Count(global) + 1, f)
          /\ SubSeq(last'.logs[1], 1, Len(L_ESCROW_CREATED) + WordLen)
                = L_ESCROW_CREATED \o Itob(Count(global) + 1)

C12_DenseIds == Count(global) = 0 /\ [] C12_Dense /\ [][C12_CountStep]_vars

\* The second create_escrow has just been approved and logged id 2.
C12_Witness ==
    /\ LastWas(M_create_escrow) /\ last.ok
    /\ Count(global) = 2
    /\ SubSeq(last.logs[1], 1, Len(L_ESCROW_CREATED) + WordLen) = L_ESCROW_CREATED \o Itob(2)

(***************************************************************************)
(* C13.  In every reachable state every escrow record with an id in        *)
(* 1..escrow_count has amount > 0.                                         *)
(***************************************************************************)
C13_AmountPositive ==
    \A id \in Ids(global) :
        /\ Field(global, id, K_amount).t = "u"
        /\ AmountOf(global, id) > 0

\* A create_escrow paying nothing for a price of 0 has just been refused,
\* next to a record of 999 microunits.
C13_Witness ==
    /\ LastWas(M_create_escrow) /\ ~last.ok /\ last.err = "InvalidArgument"
    /\ Count(global) = 1 /\ AmountOf(global, 1) = 999
    /\ ~Outcome(PaidCall(Buyer, CreateArgs(7, Publisher, 0), PayTxn(Buyer, AppAddr, 0))).ok

(***************************************************************************)
(* C14.  In every reachable state an escrow has released_at set exactly    *)
(* when its status is Released, refunded_at set exactly when its status is *)
(* Refunded, and neither while Pending; a terminal escrow has exactly one  *)
(* of the two.                                                             *)
(***************************************************************************)
C14_Timestamps ==
    \A id \in Ids(global) :
        /\ IsSet(global, id, K_released) <=> StatusOf(global, id) = STATUS_RELEASED
        /\ IsSet(global, id, K_refunded) <=> StatusOf(global, id) = STATUS_REFUNDED
        /\ IsPending(global, id) =>
              ~IsSet(global, id, K_released) /\ ~IsSet(global, id, K_refunded)
        /\ IsTerminal(global, id) =>
              IsSet(global, id, K_released) # IsSet(global, id, K_refunded)

\* Of two escrows one stands Released with released_at only, the other
\* Refunded with refunded_at only.
C14_Witness ==
    /\ Count(global) = 2
    /\ StatusOf(global, 1) = STATUS_RELEASED
    /\ IsSet(global, 1, K_released) /\ ~IsSet(global, 1, K_refunded)
    /\ StatusOf(global, 2) = STATUS_REFUNDED
    /\ IsSet(global, 2, K_refunded) /\ ~IsSet(global, 2, K_released)

(***************************************************************************)
(* C15.  A record is never removed, and its model_id, buyer, publisher,    *)
(* amount and created_at never change: an approved release_payment or      *)
(* refund_payment changes only the status and the released_at or           *)
(* refunded_at of one escrow, and no call of any kind, application update  *)
(* and delete calls from any sender included, deletes a record or alters   *)
(* the fields of another escrow.                                           *)
(***************************************************************************)
C15_Changed(id) ==
    \E f \in RecordFields \cup StampFields :
        \/ IsSet(global', id, f) # IsSet(global, id, f)
        \/ Field(global', id, f) # Field(global, id, f)

\* A step that leaves the store as it was keeps every record; of the
\* others:
C15_FrameStep ==
    global' # global =>
        /\ DOMAIN global \subseteq DOMAIN global'
        /\ \A id \in Ids(global) : \A f \in FixedFields :
              Field(global', id, f) = Field(global, id, f)
        /\ \A id \in Ids(global) :
              C15_Changed(id) =>
                  /\ last'.ok /\ last'.oc = "NoOp"
                  /\ last'.method \in {M_release_payment, M_refund_payment}
                  /\ \A other \in Ids(global) \ {id} : ~C15_Changed(other)
                  /\ Count(global') = Count(global)
                  /\ DOMAIN global' \ DOMAIN global \subseteq
                        { escrow_key(id, f) : f \in StampFields }

C15_NoUpdateNoDelete ==
    \A caller \in Accounts : \A oc \in {"UpdateApplication", "DeleteApplication"} :
        \A args \in {<<M_release_payment, Itob(1)>>, <<M_get_escrow_count>>, <<L_COLON>>} :
            ~Outcome(Call(caller, oc, args)).ok

C15_RecordsKept == [] C15_NoUpdateNoDelete /\ [][C15_FrameStep]_vars

\* A release_payment of escrow 2 has just been approved at a later time
\* than its creation; escrow 1 still stands Pending beside it.
C15_Witness ==
    /\ LastWas(M_release_payment) /\ last.ok
    /\ Count(global) = 2 /\ IsPending(global, 1)
    /\ StatusOf(global, 2) = STATUS_RELEASED
    /\ Btoi(Field(global, 2, K_released).v) > CreatedOf(global, 2)

(***************************************************************************)
(* C16.  get_escrow_status and get_escrow_count change no stored state and *)
(* not the custodial balance; all they do is log.  get_escrow_status is    *)
(* approved for every id in 1..escrow_count and logs the stored model_id,  *)
(* buyer, publisher, amount, status and created_at.                        *)
(***************************************************************************)
C16_Reports(id, logs) ==
    /\ Len(logs) = 7
    /\ logs[1] = L_ESCROW_STATUS \o Itob(id)
    /\ logs[2] = L_MODEL_ID \o Itob(Field(global, id, K_model).v)
    /\ logs[3] = L_BUYER \o BuyerOf(global, id)
    /\ logs[4] = L_PUBLISHER \o PublisherOf(global, id)
    /\ logs[5] = L_AMOUNT \o Itob(AmountOf(global, id))
    /\ logs[6] = L_STATUS \o Itob(StatusOf(global, id))
    /\ logs[7] = L_CREATED \o Itob(CreatedOf(global, id))

C16_ReadsAnswer ==
    /\ \A id \in Ids(global) : \A caller \in Accounts :
          LET r == Outcome(Call(caller, "NoOp", <<M_get_escrow_status, Itob(id)>>))
          IN  r.ok /\ r.global = global /\ r.itxns = << >> /\ C16_Reports(id, r.logs)
    /\ \A txn \in CountCalls :
          LET r == Outcome(txn)
          IN  /\ r.ok /\ r.global = global /\ r.itxns = << >>
              /\ r.logs = << L_ESCROW_COUNT \o Itob(Count(global)) >>

C16_ReadStep ==
    (last'.oc = "NoOp" /\ last'.method \in {M_get_escrow_status, M_get_escrow_count}) =>
        UNCHANGED <<global, balance, paid>>

C16_PureReads == [] C16_ReadsAnswer /\ [][C16_ReadStep]_vars

\* get_escrow_status(1) has just been answered for a Refunded escrow of
\* 2500 microunits bought by Buyer from Publisher.
C16_Witness ==
    /\ LastWas(M_get_escrow_status) /\ last.ok /\ Len(last.logs) = 7
    /\ last.logs[1] = L_ESCROW_STATUS \o Itob(1)
    /\ last.logs[3] = L_BUYER \o Buyer
    /\ last.logs[4] = L_PUBLISHER \o Publisher
    /\ last.logs[5] = L_AMOUNT \o Itob(2500)
    /\ last.logs[6] = L_STATUS \o Itob(STATUS_REFUNDED)

(***************************************************************************)
(* C17.  release_payment, refund_payment and get_escrow_status with        *)
(* escrow_id = 0 or escrow_id > escrow_count always fail (InvalidArgument) *)
(* and change nothing; an id never created is not taken for a Pending      *)
(* escrow although its absent status field reads as 0, the Pending value.  *)
(***************************************************************************)
C17_RangeCalls ==
    { Call(caller, "NoOp", <<m, Itob(id)>>) :
        caller \in Accounts,
        m \in {M_release_payment, M_refund_payment, M_get_escrow_status},
        id \in OutOfRange(global) }

C17_OutOfRangeFails ==
    /\ \A id \in OutOfRange(global) :
          /\ ~IsSet(global, id, K_status)
          /\ TealEq(Field(global, id, K_status), U(STATUS_PENDING))
    /\ \A txn \in C17_RangeCalls :
          /\ ~Outcome(txn).ok
          /\ Outcome(txn).err = "InvalidArgument"
          /\ Outcome(txn).itxns = << >>

C17_RangeStep ==
    (last'.oc = "NoOp" /\ ~last'.ok /\ last'.err = "InvalidArgument") =>
        UNCHANGED <<global, balance, paid>>

C17_RangeChecked == [] C17_OutOfRangeFails /\ [][C17_RangeStep]_vars

\* With one escrow created and its timeout passed, a refund_payment has
\* just been refused for its argument: id 2, never created, reads Pending.
C17_Witness ==
    /\ LastWas(M_refund_payment) /\ ~last.ok /\ last.err = "InvalidArgument"
    /\ Count(global) = 1 /\ ~IsSet(global, 2, K_status) /\ IsPending(global, 2)
    /\ now > CreatedOf(global, 1) + RefundTimeout
    /\ ~Outcome(Call(Other, "NoOp", <<M_refund_payment, Itob(2)>>)).ok

(***************************************************************************)
(* C18.  Name uniqueness: while a name is registered, a register call for  *)
(* it fails on the check that the name is free, for every caller (its      *)
(* owner included), and leaves the owner, the cid and the price of the     *)
(* name as they were.  (NameRegistry; NameRegistryWorking yields no        *)
(* program, so that no name is ever registered with it.)                   *)
(***************************************************************************)
C18_SecondRegisterFails ==
    \A n \in Names :
        /\ Registered(registry, n) =>
              \A txn \in CallsOn(RegisterCalls, n, 4) :
                  /\ ~NameOutcome(txn).ok
                  /\ Len(Arg(txn, 2)) > 0 => NameOutcome(txn).err \in {"InvalidState", "TypeError"}

C18_RegisterStep ==
    (last'.oc = "NoOp" /\ last'.method = M_register) =>
        \A n \in Names :
            /\ Registered(registry, n) =>
                  /\ Registered(registry', n)
                  /\ OwnerOf(registry', n) = OwnerOf(registry, n)
                  /\ CidOf(registry', n) = CidOf(registry, n)
                  /\ PriceOf(registry', n) = PriceOf(registry, n)

C18_NameUniqueness == [] C18_SecondRegisterFails /\ [][C18_RegisterStep]_vars

\* NameRegistry holds "a" for Alice and "b" for Bob, and a register call
\* has just been refused.
C18_Witness ==
    /\ LastWas(M_register) /\ ~last.ok /\ last.err \in {"InvalidState", "TypeError"}
    /\ Registered(registry, <<97>>) /\ OwnerOf(registry, <<97>>) = Alice
    /\ Registered(registry, <<98>>) /\ OwnerOf(registry, <<98>>) = Bob
    /\ ~NameOutcome(Call(Bob, "NoOp", <<M_register, <<97>>, Cid1, Price1>>)).ok

(***************************************************************************)
(* C19.  For a registered name, update, transfer and delete are approved   *)
(* only for the caller that is the current owner; for every other caller   *)
(* they fail as Unauthorized; on an unregistered name they fail as         *)
(* NotFound.  A failed call leaves the records as they were.               *)
(***************************************************************************)
C19_WellFormed(txn) ==
    \/ Method(txn) = M_update /\ Len(txn.args) = 4
    \/ Method(txn) = M_transfer /\ Len(txn.args) = 3 /\ Len(Arg(txn, 2)) = AddrLen
    \/ Method(txn) = M_delete /\ Len(txn.args) = 2

C19_Ruled(r, known, byOwner) ==
    /\ r.ok => (known /\ byOwner)
    /\ (known /\ ~byOwner) => (~r.ok /\ r.err = "Unauthorized")
    /\ ~known => (~r.ok /\ r.err = "NotFound")

C19_OwnerOnly ==
    /\ \A txn \in UpdateCalls \cup TransferCalls \cup DeleteCalls :
          C19_WellFormed(txn) =>
              C19_Ruled(NameOutcome(txn), Registered(registry, Arg(txn, 1)),
                        OwnerOf(registry, Arg(txn, 1)) = txn.sender)

\* "a" is registered to Alice in NameRegistry and an update has just been
\* refused on the test of the owner entry against Int(0), which fails the
\* program for Bob and for Alice alike.
C19_Witness ==
    /\ LastWas(M_update) /\ ~last.ok /\ last.err = "TypeError"
    /\ Registered(registry, <<97>>) /\ OwnerOf(registry, <<97>>) = Alice
    /\ NameOutcome(Call(Bob, "NoOp", <<M_update, <<97>>, Cid2, Price2>>)).err = "TypeError"
    /\ NameOutcome(Call(Alice, "NoOp", <<M_update, <<97>>, Cid2, Price2>>)).err = "TypeError"

(***************************************************************************)
(* C20.  transfer(name, new_owner) by the current owner is approved when   *)
(* new_owner is 32 bytes long and only then; after it the stored owner is  *)
(* new_owner, the cid and the price are as before, update, transfer and    *)
(* delete by the previous owner fail and those by new_owner are approved.  *)
(***************************************************************************)
C20_Handed(g, n, from, to) ==
    /\ OwnerOf(g, n) = to
    /\ CidOf(g, n) = CidOf(registry, n)
    /\ PriceOf(g, n) = PriceOf(registry, n)
    /\ \A txn \in CallsOn(UpdateCalls, n, 4) \cup CallsOn(TransferCalls, n, 3) \cup CallsOn(DeleteCalls, n, 2) :
          C19_WellFormed(txn) =>
              /\ (txn.sender = from /\ from # to) => ~name_program(g, txn, now).ok
              /\ txn.sender = to => name_program(g, txn, now).ok

C20_TransferHandsOver ==
    \A n \in Names :
        Registered(registry, n) =>
            \A txn \in CallsOn(TransferCalls, n, 3) :
                txn.sender = OwnerOf(registry, n) =>
                    IF Len(Arg(txn, 2)) = AddrLen
                    THEN /\ NameOutcome(txn).ok
                         /\ C20_Handed(NameOutcome(txn).global, n, txn.sender, Arg(txn, 2))
                    ELSE ~NameOutcome(txn).ok

\* Alice, the owner of "a", has just had a transfer refused; her transfer
\* of "a" to Bob is refused too.
C20_Witness ==
    /\ LastWas(M_transfer) /\ ~last.ok
    /\ Registered(registry, <<97>>) /\ OwnerOf(registry, <<97>>) = Alice
    /\ ~NameOutcome(Call(Alice, "NoOp", <<M_transfer, <<97>>, Bob>>)).ok
    /\ NameOutcome(Call(Alice, "NoOp", <<M_transfer, <<97>>, Bob>>)).err = "TypeError"

(***************************************************************************)
(* C21.  delete(name) by the owner of a registered name is approved and    *)
(* leaves no field of the name: exists reports 0, resolve, update,         *)
(* transfer and delete on the name fail, and a register of the name by     *)
(* any caller is approved and makes that caller the owner, with the cid    *)
(* and the price of the new registration.                                  *)
(***************************************************************************)
C21_Freed(g, n) ==
    /\ \A suffix \in {P_owner, P_cid, P_price, P_ts} : name_key(n, suffix) \notin DOMAIN g
    /\ \A txn \in CallsOn(ExistsCalls, n, 2) :
          /\ name_program(g, txn, now).ok
          /\ name_program(g, txn, now).logs = << L_EXISTS \o n \o L_COLON \o L_ZERO >>
    /\ \A txn \in CallsOn(ResolveCalls, n, 2) \cup CallsOn(UpdateCalls, n, 4)
                  \cup CallsOn(TransferCalls, n, 3) \cup CallsOn(DeleteCalls, n, 2) :
          ~name_program(g, txn, now).ok
    /\ \A txn \in CallsOn(RegisterCalls, n, 4) :
          Len(Arg(txn, 2)) > 0 =>
              LET r == name_program(g, txn, now)
              IN  /\ r.ok
                  /\ OwnerOf(r.global, n) = txn.sender
                  /\ CidOf(r.global, n) = Arg(txn, 2)
                  /\ PriceOf(r.global, n) = Btoi(Arg(txn, 3))

\* NameRegistry: the owner's delete is approved and frees the name.
C21_GlobalDelete ==
    \A n \in Names :
        Registered(registry, n) =>
            LET r == NameOutcome(Call(OwnerOf(registry, n), "NoOp", <<M_delete, n>>))
            IN  r.ok /\ C21_Freed(r.global, n)

C21_DeleteFrees == C21_GlobalDelete

\* Alice, the owner of "a" in NameRegistry, has just had her delete of "a"
\* refused; every field of "a" is still stored.
C21_Witness ==
    /\ LastWas(M_delete) /\ ~last.ok /\ last.err = "TypeError"
    /\ Registered(registry, <<97>>) /\ OwnerOf(registry, <<97>>) = Alice
    /\ ~NameOutcome(Call(Alice, "NoOp", <<M_delete, <<97>>>>)).ok
    /\ \A suffix \in {P_owner, P_cid, P_price, P_ts} : name_key(<<97>>, suffix) \in DOMAIN registry

(***************************************************************************)
(* C22.  In every reachable state every registered name and every          *)
(* published model has a content reference (cid) that is not empty,        *)
(* whatever register, update, transfer, delete and publish_model requests  *)
(* were made.  The names are those of NameRegistry and of                  *)
(* NameRegistrySimple (NameRegistryWorking yields no program and registers *)
(* no name).                                                               *)
(***************************************************************************)
C22_NameCids ==
    \A n \in Names \cup {Name64, LongName} :
        Registered(registry, n) =>
            /\ name_key(n, P_cid) \in DOMAIN registry
            /\ Len(CidOf(registry, n)) > 0

C22_ModelCids ==
    \A id \in ModelIdsOf(models) :
        /\ model_key(id, R_cid) \in DOMAIN models
        /\ Len(ModelField(models, id, R_cid).v) > 0

\* The box of a name of NameRegistrySimple holds the owner (32 bytes), the
\* price (8 bytes) and the cid.
C22_SimpleCids == \A n \in DOMAIN simple : Len(simple[n]) > AddrLen + WordLen

C22_CidNonEmpty == C22_NameCids /\ C22_ModelCids /\ C22_SimpleCids

(***************************************************************************)
(* C23.  model_exists(id) with id >= 1 and exists(name) with a name of     *)
(* 1..64 bytes are always approved: they report "1" for a published model  *)
(* or a registered name and "0" for any other, and never fail.             *)
(***************************************************************************)
C23_ModelExists ==
    \A txn \in ModelExistsCalls(models) :
        LET id == Btoi(Arg(txn, 1))
            r == ModelOutcome(txn)
        IN  id >= 1 =>
                /\ r.ok
                /\ r.global = models
                /\ r.logs = << L_MODEL_EXISTS \o (IF id \in ModelIdsOf(models) THEN L_ONE ELSE L_ZERO) >>

C23_NameExists ==
    \A n \in Names :
        \A txn \in CallsOn(ExistsCalls, n, 2) :
            LET r == NameOutcome(txn)
            IN  /\ r.ok
                /\ r.global = registry
                /\ r.logs = << L_EXISTS \o n \o L_COLON
                                 \o (IF Registered(registry, n) THEN L_ONE ELSE L_ZERO) >>

C23_ExistsNeverFails == C23_ModelExists /\ C23_NameExists

\* One model is published and model_exists(2) has just failed on the
\* length of an entry that is not stored.
C23_Witness ==
    /\ LastWas(M_model_exists) /\ ~last.ok /\ last.err = "TypeError"
    /\ ModelCount(models) = 1
    /\ model_key(2, R_cid) \notin DOMAIN models
    /\ ~ModelOutcome(Call(Bob, "NoOp", <<M_model_exists, Itob(2)>>)).ok
    /\ ModelOutcome(Call(Bob, "NoOp", <<M_model_exists, Itob(1)>>)).ok

(***************************************************************************)
(* C24.  register(name, cid, price) is approved if and only if the name    *)
(* is 1..64 bytes long, the cid is not empty and the name is not           *)
(* registered; when approved, the stored owner is the caller and the       *)
(* stored cid and price are the supplied ones.                             *)
(***************************************************************************)
C24_Admissible(txn, taken) ==
    /\ Len(txn.args) = 4
    /\ NameLenOK(Arg(txn, 1))
    /\ Len(Arg(txn, 2)) > 0
    /\ ~taken

C24_GlobalRegister ==
    \A txn \in RegisterCalls :
        LET r == NameOutcome(txn)
        IN  /\ r.ok <=> C24_Admissible(txn, Len(txn.args) >= 2 /\ Registered(registry, Arg(txn, 1)))
            /\ r.ok => /\ OwnerOf(r.global, Arg(txn, 1)) = txn.sender
                       /\ CidOf(r.global, Arg(txn, 1)) = Arg(txn, 2)
                       /\ PriceOf(r.global, Arg(txn, 1)) = Btoi(Arg(txn, 3))

\* NameRegistryWorking: no name is registered with it.
C24_WorkingRegister ==
    \A txn \in RegisterCalls :
        WorkingOutcome(txn).ok <=> C24_Admissible(txn, FALSE)

C24_RegisterIff == C24_GlobalRegister /\ C24_WorkingRegister

\* NameRegistry has just refused the register of a free name of 64 bytes
\* with a cid: the key of its owner entry would be 70 bytes long.
C24_Witness ==
    /\ LastWas(M_register) /\ ~last.ok /\ last.err = "KeyTooLong"
    /\ ~Registered(registry, Name64)
    /\ Len(Name64) = MaxNameLen
    /\ Len(name_key(Name64, P_owner)) > MaxKeyLen
    /\ ~NameOutcome(Call(Alice, "NoOp", <<M_register, Name64, Cid1, Price1>>)).ok

(***************************************************************************)
(* C25.  resolve(name) on a registered name is approved for any caller,    *)
(* changes nothing and reports the stored owner, cid and price (those of   *)
(* the register, or of the latest update by the owner); on a name that is  *)
(* not registered it fails.                                                *)
(***************************************************************************)
C25_GlobalResolve ==
    \A n \in Names :
        \A txn \in CallsOn(ResolveCalls, n, 2) :
            LET r == NameOutcome(txn)
            IN  IF Registered(registry, n)
                THEN /\ r.ok
                     /\ r.global = registry
                     /\ r.logs[1] = L_OWNER \o OwnerOf(registry, n)
                     /\ r.logs[2] = L_CID \o CidOf(registry, n)
                     /\ r.logs[3] = L_PRICE \o Itob(PriceOf(registry, n))
                ELSE ~r.ok

C25_ResolveReports == C25_GlobalResolve

\* "a" is registered to Alice in NameRegistry with cid "Q" and price 5,
\* and a resolve of "a" has just been refused.
C25_Witness ==
    /\ LastWas(M_resolve) /\ ~last.ok /\ last.err = "TypeError"
    /\ Registered(registry, <<97>>)
    /\ OwnerOf(registry, <<97>>) = Alice
    /\ CidOf(registry, <<97>>) = Cid1
    /\ PriceOf(registry, <<97>>) = 5
    /\ ~NameOutcome(Call(Bob, "NoOp", <<M_resolve, <<97>>>>)).ok

(***************************************************************************)
(* C26.  model_count starts at 0 and grows by exactly 1 with each approved *)
(* publish_model, which stores the new record under the new count; in      *)
(* every reachable state exactly the ids 1..model_count have a record and  *)
(* get_model is approved for exactly those ids; the cid, publisher,        *)
(* license and timestamp of a published model never change or disappear.   *)
(***************************************************************************)
C26_ModelFields == {R_cid, R_pub, R_lic, R_ts}

C26_Dense ==
    /\ DOMAIN models = {model_count_key}
                         \cup { model_key(id, f) : id \in ModelIdsOf(models), f \in C26_ModelFields }
    /\ \A txn \in GetModelCalls(models) :
          ModelOutcome(txn).ok <=> (Len(txn.args) = 2 /\ Btoi(Arg(txn, 1)) \in ModelIdsOf(models))

C26_CountStep ==
    /\ IF LastWas(M_publish_model)' /\ last'.ok
       THEN /\ ModelCount(models') = ModelCount(models) + 1
            /\ last'.logs = << L_MODEL_PUBLISHED \o Itob(ModelCount(models')) \o L_COLON
                                 \o ModelField(models', ModelCount(models'), R_cid).v \o L_COLON
                                 \o ModelField(models', ModelCount(models'), R_pub).v >>
            /\ ModelField(models', ModelCount(models'), R_ts) = B(Itob(now))
       ELSE models' = models
    /\ models' # models =>
          \A id \in ModelIdsOf(models) :
              \A f \in C26_ModelFields :
                  /\ model_key(id, f) \in DOMAIN models'
                  /\ models'[model_key(id, f)] = models[model_key(id, f)]

C26_AppendOnly == ModelCount(models) = 0 /\ [] C26_Dense /\ [][C26_CountStep]_vars

\* Two models are published, the second one just now, by different
\* publishers with different cids; both records are stored.
C26_Witness ==
    /\ LastWas(M_publish_model) /\ last.ok
    /\ ModelCount(models) = 2
    /\ ModelField(models, 1, R_cid) = B(Cid1) /\ ModelField(models, 1, R_pub) = B(Alice)
    /\ ModelField(models, 2, R_cid) = B(Cid2) /\ ModelField(models, 2, R_pub) = B(Bob)
    /\ ModelOutcome(Call(Bob, "NoOp", <<M_get_model, Itob(2)>>)).ok

(***************************************************************************)
(* C27.  publish_model with an empty cid, with an empty license or with a  *)
(* wrong number of arguments fails and leaves model_count and every model  *)
(* record as they were: a failed publish consumes no model id.             *)
(***************************************************************************)
C27_Malformed(txn) ==
    \/ Len(txn.args) # 4
    \/ Len(Arg(txn, 1)) = 0
    \/ Len(Arg(txn, 3)) = 0

C27_MalformedFails ==
    \A txn \in PublishCalls :
        /\ C27_Malformed(txn) => (~ModelOutcome(txn).ok /\ ModelOutcome(txn).err = "InvalidArgument")
        /\ (~C27_Malformed(txn) /\ PublishPutsOK(models, txn)) => ModelOutcome(txn).ok

C27_FailedStep ==
    (LastWas(M_publish_model)' /\ ~last'.ok) =>
        /\ models' = models
        /\ ModelCount(models') = ModelCount(models)
        /\ last'.logs = << >>

C27_FailedPublish == [] C27_MalformedFails /\ [][C27_FailedStep]_vars

\* A publish_model has just failed with one model published before it;
\* the count is still 1 and no entry of id 2 is stored.
C27_Witness ==
    /\ LastWas(M_publish_model) /\ ~last.ok /\ last.err = "InvalidArgument"
    /\ ModelCount(models) = 1
    /\ \A f \in C26_ModelFields : model_key(2, f) \notin DOMAIN models
    /\ ~ModelOutcome(Call(Alice, "NoOp", <<M_publish_model, << >>, Alice, License1>>)).ok
    /\ ~ModelOutcome(Call(Alice, "NoOp", <<M_publish_model, Cid1, Alice, << >>>>)).ok
    /\ ~ModelOutcome(Call(Alice, "NoOp", <<M_publish_model, Cid1, Alice>>)).ok

(***************************************************************************)
(* C28.  Requests are applied one at a time.  For a Pending escrow, the    *)
(* publisher's release_payment and a refund_payment by the buyer (or by    *)
(* anyone past the timeout), applied in either order: the one applied      *)
(* first is approved, the other then fails, and exactly one payment is     *)
(* issued; publisher and buyer are never both paid.                        *)
(***************************************************************************)
\* The outcome of `second` in the state `first` leaves behind.
C28_After(first, second) ==
    LET r1 == Outcome(first)
    IN  IF r1.ok THEN program(r1.global, balance - Outbound(r1.itxns), second, now)
        ELSE Outcome(second)

C28_FirstWins(first, second) ==
    /\ Outcome(first).ok
    /\ Len(Outcome(first).itxns) = 1
    /\ ~C28_After(first, second).ok
    /\ C28_After(first, second).itxns = << >>

C28_ExactlyOne ==
    \A id \in Ids(global) :
        IsPending(global, id) =>
            \A rel \in ReleasesOn(global, id), ref \in RefundsOn(global, id) :
                (/\ rel.sender = PublisherOf(global, id)
                 /\ (ref.sender = BuyerOf(global, id) \/ TimedOut(global, id, now))) =>
                    /\ C28_FirstWins(rel, ref)
                    /\ C28_FirstWins(ref, rel)

\* The two requests never both pay, in either order.
C28_NeverBoth ==
    \A id \in Ids(global) :
        \A rel \in ReleasesOn(global, id), ref \in RefundsOn(global, id) :
            /\ Len(Outcome(rel).itxns) + Len(C28_After(rel, ref).itxns) <= 1
            /\ Len(Outcome(ref).itxns) + Len(C28_After(ref, rel).itxns) <= 1

\* On the Pending escrow of 999 microunits the publisher's release_payment
\* has just failed, and the buyer's refund_payment fails as well: neither
\* of the two requests is approved, whichever comes first.
C28_Witness ==
    /\ LastWas(M_release_payment) /\ ~last.ok /\ last.err = "ArithmeticError"
    /\ Count(global) = 1 /\ IsPending(global, 1) /\ AmountOf(global, 1) = 999
    /\ ~Outcome(Call(Publisher, "NoOp", <<M_release_payment, Itob(1)>>)).ok
    /\ ~Outcome(Call(Buyer, "NoOp", <<M_refund_payment, Itob(1)>>)).ok

\* The same for the escrows whose amount covers the fee.
C28_ExactlyOneFunded ==
    \A id \in Ids(global) :
        (IsPending(global, id) /\ AmountOf(global, id) >= ProtocolFee) =>
            \A rel \in ReleasesOn(global, id), ref \in RefundsOn(global, id) :
                (/\ rel.sender = PublisherOf(global, id)
                 /\ (ref.sender = BuyerOf(global, id) \/ TimedOut(global, id, now))) =>
                    /\ C28_FirstWins(rel, ref)
                    /\ C28_FirstWins(ref, rel)

(***************************************************************************)
(* C29.  For every escrow record create_escrow can produce, the payout     *)
(* amount - 1000 of release_payment and refund_payment does not underflow  *)
(* in unsigned 64-bit arithmetic: the stored amount is at least the fee of *)
(* 1000 microunits and the payout lies in 0..amount.                       *)
(***************************************************************************)
C29_NoUnderflow ==
    \A id \in Ids(global) :
        /\ AmountOf(global, id) >= ProtocolFee
        /\ PayoutOK(global, id)
        /\ PayoutAmount(global, id) \in 0..AmountOf(global, id)

\* create_escrow has just stored an amount of 999 microunits, for which
\* 999 - 1000 underflows.
C29_Witness ==
    /\ LastWas(M_create_escrow) /\ last.ok
    /\ Count(global) = 1 /\ AmountOf(global, 1) = 999
    /\ AmountOf(global, 1) - ProtocolFee < 0
    /\ ~PayoutOK(global, 1)

(***************************************************************************)
(* C30.  In every reachable state the publisher stored in every escrow     *)
(* record is a 32-byte account identifier, so that for every Pending       *)
(* escrow some caller passes the publisher check of release_payment.       *)
(***************************************************************************)
C30_PublisherWellFormed ==
    \A id \in Ids(global) :
        /\ Field(global, id, K_publisher).t = "b"
        /\ Len(PublisherOf(global, id)) = AddrLen
        /\ IsPending(global, id) =>
              \E caller \in Accounts :
                  ReleaseAuthorized(global, Call(caller, "NoOp", <<M_release_payment, Itob(id)>>), id)

\* create_escrow has just stored a publisher of 31 bytes; the escrow is
\* Pending and release_payment is refused to every caller.
C30_Witness ==
    /\ LastWas(M_create_escrow) /\ last.ok
    /\ Count(global) = 1 /\ IsPending(global, 1)
    /\ PublisherOf(global, 1) = ShortPublisher
    /\ Len(PublisherOf(global, 1)) = AddrLen - 1
    /\ \A txn \in ReleasesOn(global, 1) : ~Outcome(txn).ok

(***************************************************************************)
(* C31.  Custody solvency.  Counting the funds the application's own       *)
(* operations moved, in every reachable state the custodial balance is the *)
(* sum of the amounts of the Pending escrows plus 1000 for each terminal   *)
(* escrow: it covers the Pending amounts, and the fee of a terminal escrow *)
(* stays in custody, paid out to no one.                                   *)
(***************************************************************************)
RECURSIVE PendingTotal(_, _)
\* The sum of the amounts of the Pending escrows among 1..n.
PendingTotal(g, n) ==
    IF n = 0 THEN 0
    ELSE PendingTotal(g, n - 1) + (IF IsPending(g, n) THEN AmountOf(g, n) ELSE 0)

\* The terminal escrows.
TerminalIds(g) == { id \in Ids(g) : IsTerminal(g, id) }

C31_Solvency ==
    /\ balance = PendingTotal(global, Count(global)) + ProtocolFee * Cardinality(TerminalIds(global))
    /\ balance >= PendingTotal(global, Count(global))
    /\ \A id \in TerminalIds(global) :
          SumAmounts(PaidFor(id)) = AmountOf(global, id) - ProtocolFee

\* One escrow of 2500 is terminal and one of 2500 is Pending: custody
\* holds 2500 and the fee of 1000.
C31_Witness ==
    /\ Count(global) = 2
    /\ IsTerminal(global, 1) /\ IsPending(global, 2)
    /\ AmountOf(global, 1) = 2500 /\ AmountOf(global, 2) = 2500
    /\ SumAmounts(PaidFor(1)) = 1500
    /\ balance = 3500

(***************************************************************************)
(* C32.  The buyer recorded in an escrow is the sender of the payment that *)
(* funded it, also when another account sent the create_escrow call; every *)
(* refund of the escrow pays that account, and before the timeout only     *)
(* that account's refund_payment is approved.                              *)
(***************************************************************************)
C32_BuyerIsPayer ==
    \A txn \in CreateCalls :
        Outcome(txn).ok =>
            /\ txn.group[1].type = "pay"
            /\ Field(Outcome(txn).global, Count(global) + 1, K_buyer) = B(txn.group[1].sender)
            /\ \A id \in Ids(global) :
                  Field(Outcome(txn).global, id, K_buyer) = Field(global, id, K_buyer)

C32_RefundToPayer ==
    \A id \in Ids(global) :
        /\ BuyerOf(global, id) = Buyer
        /\ \A txn \in RefundsOn(global, id) :
              Outcome(txn).ok =>
                  /\ Outcome(txn).itxns[1].receiver = BuyerOf(global, id)
                  /\ ~TimedOut(global, id, now) => txn.sender = BuyerOf(global, id)
        /\ StatusOf(global, id) = STATUS_REFUNDED =>
              \A i \in 1..Len(PaidFor(id)) : PaidFor(id)[i].receiver = BuyerOf(global, id)

C32_PayerIsBuyer == C32_BuyerIsPayer /\ C32_RefundToPayer

\* An escrow paid for by the buyer has just been created, and a
\* create_escrow sent by another account after the buyer's payment is
\* approved and records the buyer; before the timeout the buyer's refund is
\* approved and the other account's is not.
C32_Witness ==
    /\ LastWas(M_create_escrow) /\ last.ok
    /\ Count(global) = 1 /\ BuyerOf(global, 1) = Buyer /\ AmountOf(global, 1) = 2500
    /\ ~TimedOut(global, 1, now)
    /\ LET txn == PaidCall(Other, CreateArgs(7, Publisher, 2500), PayTxn(Buyer, AppAddr, 2500))
       IN  /\ txn \in CreateCalls
           /\ Outcome(txn).ok
           /\ Field(Outcome(txn).global, 2, K_buyer) = B(Buyer)
    /\ Outcome(Call(Buyer, "NoOp", <<M_refund_payment, Itob(1)>>)).ok
    /\ ~Outcome(Call(Other, "NoOp", <<M_refund_payment, Itob(1)>>)).ok

(***************************************************************************)
(* C33.  refund_payment by the stored buyer of a Pending escrow is         *)
(* approved at any time, the instant of the creation included and before   *)
(* any timeout; the 7-day condition restricts the other callers only.      *)
(***************************************************************************)
C33_BuyerRefunds ==
    \A id \in Ids(global) :
        IsPending(global, id) =>
            \A txn \in RefundsOn(global, id) :
                txn.sender = BuyerOf(global, id) =>
                    /\ Outcome(txn).ok
                    /\ StatusOf(Outcome(txn).global, id) = STATUS_REFUNDED

\* The same for the escrows whose amount covers the fee.
C33_BuyerRefundsFunded ==
    \A id \in Ids(global) :
        (IsPending(global, id) /\ AmountOf(global, id) >= ProtocolFee) =>
            \A txn \in RefundsOn(global, id) :
                txn.sender = BuyerOf(global, id) => Outcome(txn).ok

\* An escrow of 999 microunits has just been created; in the same instant
\* the refund_payment of its buyer is refused.
C33_Witness ==
    /\ LastWas(M_create_escrow) /\ last.ok
    /\ Count(global) = 1 /\ IsPending(global, 1) /\ AmountOf(global, 1) = 999
    /\ CreatedOf(global, 1) = now
    /\ BuyerOf(global, 1) = Buyer
    /\ ~Outcome(Call(Buyer, "NoOp", <<M_refund_payment, Itob(1)>>)).ok
    /\ Outcome(Call(Buyer, "NoOp", <<M_refund_payment, Itob(1)>>)).err = "ArithmeticError"

(***************************************************************************)
(* C34.  release_payment has no deadline: while an escrow is Pending the   *)
(* release_payment of its stored publisher is approved, also when          *)
(* now > created_at + 604800; the passing of time alone never changes the  *)
(* status of an escrow.                                                    *)
(***************************************************************************)
C34_PublisherReleases ==
    \A id \in Ids(global) :
        IsPending(global, id) =>
            \A txn \in ReleasesOn(global, id) :
                txn.sender = PublisherOf(global, id) =>
                    /\ Outcome(txn).ok
                    /\ StatusOf(Outcome(txn).global, id) = STATUS_RELEASED

\* The same for the escrows whose amount covers the fee.
C34_PublisherReleasesFunded ==
    \A id \in Ids(global) :
        (IsPending(global, id) /\ AmountOf(global, id) >= ProtocolFee) =>
            \A txn \in ReleasesOn(global, id) :
                txn.sender = PublisherOf(global, id) => Outcome(txn).ok

\* A step that only moves the clock leaves the store as it was.
C34_ClockStep == now' # now => global' = global

C34_TimeChangesNothing == [][C34_ClockStep]_vars

\* Past the timeout of the Pending escrow of 999 microunits, the
\* release_payment of its publisher has just been refused.
C34_Witness ==
    /\ LastWas(M_release_payment) /\ ~last.ok /\ last.err = "ArithmeticError"
    /\ Count(global) = 1 /\ IsPending(global, 1) /\ AmountOf(global, 1) = 999
    /\ now > CreatedOf(global, 1) + RefundTimeout
    /\ ~Outcome(Call(Publisher, "NoOp", <<M_release_payment, Itob(1)>>)).ok

(***************************************************************************)
(* C35.  In NameRegistry the test "the owner entry reads as zero" agrees   *)
(* with "the name is not registered" in every reachable state, whatever    *)
(* register, update, transfer (also to the identity of 32 zero bytes) and  *)
(* delete calls came before: exists(name) reports 1 exactly for the names  *)
(* that are registered, and register never takes a registered name for a   *)
(* free one.                                                               *)
(***************************************************************************)
\* The owner entry of a registered name is a byte string, never the
\* integer 0 an absent entry reads as.
C35_OwnerEntryTyped ==
    \A n \in Names :
        /\ Registered(registry, n) => (OwnerEntry(registry, n).t = "b" /\ Len(OwnerOf(registry, n)) = AddrLen)
        /\ ~Registered(registry, n) => OwnerEntry(registry, n) = U(0)

\* register never takes a registered name for a free one.
C35_NeverTakenForFree ==
    \A n \in Names :
        Registered(registry, n) => \A txn \in CallsOn(RegisterCalls, n, 4) : ~NameOutcome(txn).ok

C35_ExistsReports ==
    \A n \in Names :
        \A txn \in CallsOn(ExistsCalls, n, 2) :
            /\ NameOutcome(txn).ok
            /\ Registered(registry, n) =>
                  NameOutcome(txn).logs = << L_EXISTS \o n \o L_COLON \o L_ONE >>
            /\ ~Registered(registry, n) =>
                  NameOutcome(txn).logs = << L_EXISTS \o n \o L_COLON \o L_ZERO >>

C35_ZeroMeansFree == C35_OwnerEntryTyped /\ C35_NeverTakenForFree /\ C35_ExistsReports

\* "a" is registered to Alice, her transfer of "a" to the zero identity
\* is refused, and an exists call has just failed instead of reporting 1.
C35_Witness ==
    /\ LastWas(M_exists) /\ ~last.ok /\ last.err = "TypeError"
    /\ Registered(registry, <<97>>) /\ OwnerOf(registry, <<97>>) = Alice
    /\ ~NameOutcome(Call(Alice, "NoOp", <<M_transfer, <<97>>, ZeroAddr>>)).ok
    /\ ~NameOutcome(Call(Bob, "NoOp", <<M_exists, <<97>>>>)).ok

(***************************************************************************)
(* C36.  Composite keys never collide.  Within each contract the store     *)
(* keys of two distinct (prefix, identity) pairs differ and none equals    *)
(* the key of the running counter; an approved operation on one escrow     *)
(* id, model id or name changes entries of that identity only (and the     *)
(* counter when a record is created) and leaves every field of every       *)
(* other record as it was.                                                 *)
(***************************************************************************)
\* Whether p is a prefix of q.
IsPrefix(p, q) == Len(p) <= Len(q) /\ SubSeq(q, 1, Len(p)) = p

EscrowPrefixes == RecordFields \cup StampFields
ModelPrefixes == {R_cid, R_pub, R_lic, R_ts}
NamePrefixes == {P_owner, P_cid, P_price, P_ts}

\* No prefix of a contract begins another prefix of it or its counter key:
\* whatever the identities, two keys with different prefixes differ.
C36_PrefixFree ==
    /\ \A p, q \in EscrowPrefixes : p # q => ~IsPrefix(p, q)
    /\ \A p \in EscrowPrefixes : ~IsPrefix(p, escrow_count_key)
    /\ \A p, q \in ModelPrefixes : p # q => ~IsPrefix(p, q)
    /\ \A p \in ModelPrefixes : ~IsPrefix(p, model_count_key)
    /\ \A p, q \in NamePrefixes : p # q => ~IsPrefix(p, q)

\* The keys of the identities in use are pairwise distinct.
C36_KeysDistinct ==
    /\ \A i, j \in 0..(MaxEscrows + 1) : \A p, q \in EscrowPrefixes :
          /\ escrow_key(i, p) = escrow_key(j, q) => (i = j /\ p = q)
          /\ escrow_key(i, p) # escrow_count_key
    /\ \A i, j \in 0..(MaxModels + 1) : \A p, q \in ModelPrefixes :
          /\ model_key(i, p) = model_key(j, q) => (i = j /\ p = q)
          /\ model_key(i, p) # model_count_key
    /\ \A m, n \in KeyNames \cup Names : \A p, q \in NamePrefixes :
          name_key(m, p) = name_key(n, q) => (m = n /\ p = q)

\* The keys on which two stores differ.
ChangedKeys(g, h) ==
    { k \in DOMAIN g \cup DOMAIN h : k \notin DOMAIN g \/ k \notin DOMAIN h \/ g[k] # h[k] }

C36_EscrowFrame ==
    global' # global =>
        \E id \in Ids(global') :
            /\ ChangedKeys(global, global') \subseteq
                  { escrow_key(id, p) : p \in EscrowPrefixes }
                  \cup (IF id = Count(global) + 1 THEN {escrow_count_key} ELSE {})
            /\ \A other \in Ids(global') \ {id} : \A p \in EscrowPrefixes :
                  Field(global', other, p) = Field(global, other, p)
            /\ id \in Ids(global) => Count(global') = Count(global)

C36_ModelFrame ==
    models' # models =>
        LET id == ModelCount(models')
        IN  /\ id = ModelCount(models) + 1
            /\ ChangedKeys(models, models') =
                  { model_key(id, p) : p \in ModelPrefixes } \cup {model_count_key}
            /\ \A other \in ModelIdsOf(models) : \A p \in ModelPrefixes :
                  ModelField(models', other, p) = ModelField(models, other, p)

C36_NameFrame ==
    registry' # registry =>
        \E n \in KeyNames :
            /\ ChangedKeys(registry, registry') = { name_key(n, p) : p \in NamePrefixes }
            /\ \A other \in KeyNames \ {n} : \A p \in NamePrefixes :
                  globalGet(registry', name_key(other, p)) = globalGet(registry, name_key(other, p))

C36_FrameStep == C36_EscrowFrame /\ C36_ModelFrame /\ C36_NameFrame

C36_NoCollision ==
    [] (C36_PrefixFree /\ C36_KeysDistinct) /\ [][C36_FrameStep]_vars

\* "cid_a" has just been registered next to "a" and "aa", with two
\* escrows, one of them settled, and two models in the other stores; the
\* cid of "a" is still the one it was registered with.
C36_Witness ==
    /\ LastWas(M_register) /\ last.ok
    /\ \A n \in KeyNames : Registered(registry, n) /\ CidOf(registry, n) = Cid1
    /\ name_key(<<97>>, P_cid) = P_cid \o <<97>>
    /\ Count(global) = 2 /\ IsTerminal(global, 1) /\ IsPending(global, 2)
    /\ ModelCount(models) = 2

(***************************************************************************)
(* C37: every successful create_escrow appends exactly one audit event     *)
(* carrying the newly assigned escrow_id (the escrow_count after the       *)
(* call), the model_id, the recorded buyer and the recorded amount; every  *)
(* successful release_payment and refund_payment appends exactly one       *)
(* event naming the escrow and the payee (the recorded publisher, the      *)
(* recorded buyer); a failed request appends none, and the events already  *)
(* in the trail are never altered.  get_escrow_status and get_escrow_count *)
(* add their own lines to the trail, none of them an event of a creation   *)
(* or of a settlement.                                                     *)
(***************************************************************************)
\* The event of the creation of escrow id, read from its record.
C37_CreatedEvent(g, id) ==
    L_ESCROW_CREATED \o Itob(id) \o L_COLON \o Itob(Field(g, id, K_model).v) \o L_COLON
        \o Field(g, id, K_buyer).v \o L_COLON \o Itob(Field(g, id, K_amount).v)

\* The event of a settlement of escrow id in favour of the party recorded
\* in the field payee.
C37_SettledEvent(g, id, tag, payee) ==
    tag \o Itob(id) \o L_COLON \o Field(g, id, payee).v \o L_COLON
        \o Itob(Field(g, id, K_amount).v)

\* The events of creations and settlements, as against the lines logged by
\* get_escrow_status and get_escrow_count.
C37_HasTag(e, tag) == Len(e) >= Len(tag) /\ SubSeq(e, 1, Len(tag)) = tag

C37_IsAudit(e) ==
    \E tag \in {L_ESCROW_CREATED, L_PAYMENT_RELEASED, L_PAYMENT_REFUNDED} : C37_HasTag(e, tag)

C37_Audit(trail) == SelectSeq(trail, C37_IsAudit)

\* One event for each escrow created and one for each escrow settled.
C37_OnePerCommit ==
    Len(C37_Audit(events)) = Count(global) + Cardinality(TerminalIds(global))

C37_Prefix == SubSeq(events', 1, Len(events)) = events

C37_Step ==
    /\ C37_Prefix
    /\ IF now' # now \/ ~last'.ok \/ last'.oc # "NoOp"
       THEN events' = events
       ELSE IF last'.method = M_create_escrow
       THEN /\ Count(global') = Count(global) + 1
            /\ events' = Append(events, C37_CreatedEvent(global', Count(global')))
       ELSE IF last'.method = M_release_payment
       THEN \E id \in Ids(global) :
               /\ IsPending(global, id) /\ StatusOf(global', id) = STATUS_RELEASED
               /\ events' = Append(events,
                      C37_SettledEvent(global', id, L_PAYMENT_RELEASED, K_publisher))
       ELSE IF last'.method = M_refund_payment
       THEN \E id \in Ids(global) :
               /\ IsPending(global, id) /\ StatusOf(global', id) = STATUS_REFUNDED
               /\ events' = Append(events,
                      C37_SettledEvent(global', id, L_PAYMENT_REFUNDED, K_buyer))
       ELSE C37_Audit(events') = C37_Audit(events)

C37_AuditTrail == [] C37_OnePerCommit /\ [][C37_Step]_vars

\* Two escrows were created, the first was released, the second has just
\* been refunded, and get_escrow_status was answered in between: the trail
\* holds its seven lines and, in that order, the four events.
C37_Witness ==
    /\ Count(global) = 2
    /\ StatusOf(global, 1) = STATUS_RELEASED /\ StatusOf(global, 2) = STATUS_REFUNDED
    /\ LastWas(M_refund_payment) /\ last.ok
    /\ Len(events) = 11
    /\ \E i \in 1..Len(events) : C37_HasTag(events[i], L_ESCROW_STATUS)
    /\ C37_Audit(events) =
           << C37_CreatedEvent(global, 1), C37_CreatedEvent(global, 2),
              C37_SettledEvent(global, 1, L_PAYMENT_RELEASED, K_publisher),
              C37_SettledEvent(global, 2, L_PAYMENT_REFUNDED, K_buyer) >>

(***************************************************************************)
(* C38: in NameRegistrySimple, register on a name that is already          *)
(* registered fails and leaves the stored owner, price and cid of that     *)
(* name unchanged: no caller takes over or overwrites an existing name by  *)
(* registering it again.                                                   *)
(***************************************************************************)
\* The name of the box that a committed register named, read from its log.
C38_Registered(n) ==
    /\ last'.oc = "NoOp" /\ last'.method = M_register /\ last'.ok
    /\ last'.logs = << L_REGISTERED \o n >>

C38_Step ==
    \A n \in DOMAIN simple :
        /\ n \in DOMAIN simple' /\ simple'[n] = simple[n]
        /\ last' # last => ~C38_Registered(n)

C38_RegisterOnce == [][C38_Step]_vars

\* Bob holds "a" with the second content reference and the second price
\* while Alice holds "b": both were registered, the last call was a register
\* that was approved.
C38_Witness ==
    /\ LastWas(M_register) /\ last.ok
    /\ Boxed(simple, <<97>>) /\ BoxOwner(simple, <<97>>) = Bob
    /\ BoxCid(simple, <<97>>) = Cid2 /\ BoxPrice(simple, <<97>>) = Price2
    /\ Boxed(simple, <<98>>) /\ BoxOwner(simple, <<98>>) = Alice

(***************************************************************************)
(* C39: application update and delete requests are rejected for every      *)
(* sender, the creator included, by Escrow and ModelRegistry, and are      *)
(* approved by NameRegistry and NameRegistryWorking if and only if the     *)
(* sender is the contract creator; a non-creator never replaces or removes *)
(* any of the applications.                                                *)
(***************************************************************************)
\* Escrow and ModelRegistry approve no update or delete request and are
\* never replaced or removed.
C39_NeverApproved ==
    /\ \A txn \in AdminRequests :
          /\ ~program(global, balance, txn, now).ok
          /\ ~model_program(models, txn, now).ok
    /\ gone \cap {"Escrow", "ModelRegistry"} = {}

\* The name registries approve no update or delete request of a sender who
\* is not the creator.
C39_NeverByOthers ==
    \A txn \in AdminRequests :
        /\ name_program(registry, txn, now).ok => txn.sender = Creator
        /\ WorkingOutcome(txn).ok => txn.sender = Creator

\* The name registries approve every update or delete request of the
\* creator.
C39_CreatorApproved ==
    \A txn \in AdminRequests :
        txn.sender = Creator =>
            /\ name_program(registry, txn, now).ok
            /\ WorkingOutcome(txn).ok

C39_AdminOnlyCreator == C39_NeverApproved /\ C39_NeverByOthers /\ C39_CreatorApproved

\* The parts of the claim about what is refused.
C39_NoTakeover == C39_NeverApproved /\ C39_NeverByOthers

\* NameRegistry is gone by a request of the creator while Escrow and
\* ModelRegistry, each holding a record, have refused theirs.
C39_Witness ==
    /\ gone = {"NameRegistry"}
    /\ Count(global) = 1 /\ ModelCount(models) = 1
    /\ last.oc \in {"UpdateApplication", "DeleteApplication"} /\ ~last.ok

====
